---- MODULE Spec2Model ----
(***************************************************************************)
(* Verification model of the command_executor agent                        *)
(* (code/agents/command_executor/src).                                     *)
(*                                                                         *)
(* Four specifications share this module:                                  *)
(*   SpecCmd   the OpenSSLCommand builder and its redacted rendering       *)
(*             (openssl.rs, validators.rs);                                *)
(*   Spec      the operation protocols hmac / aes_encrypt / aes_decrypt    *)
(*             with an abstract sandbox (providers/*.rs);                  *)
(*   SpecExec  execute_handler driving OpenSSLCommand::execute against a   *)
(*             child process with bounded pipes (routes.rs, openssl.rs);   *)
(*   SpecExecFair  SpecExec with the scheduling of the runtime and kernel. *)
(*                                                                         *)
(* Text is a sequence of one-character strings; bytes are naturals.        *)
(***************************************************************************)
EXTENDS Integers, Sequences, FiniteSets, TLC

VARIABLES
    \* OpenSSLCommand (openssl.rs:103-112)
    binary, args, secret_indices, stdin_data,
    \* one provider call (providers/hashing.rs, providers/symmetric.rs)
    pc,       \* the await point the call is suspended at
    req,      \* the call's parameters
    invs,     \* the invocations issued on the call's ExecutionContext, in order
    files,    \* the temp files of the ExecutionContext
    result,   \* the Result the call returned
    loc,      \* the call's local variables that live across await points
    phase,    \* "single", or "fed" once aes_encrypt's output was fed to aes_decrypt
    base,     \* the number of invocations issued before the current call began
    orig,     \* the aes_encrypt parameters of a round trip
    \* one request in execute_handler (routes.rs:196-294)
    h_pc,         \* where the handler is
    operation,    \* request.operation
    ctx,          \* the request's ExecutionContext: its TempDir and timeout_ms
    n_inv,        \* invocations of the request that have returned Ok
    h_result,     \* the provider's Result
    response,     \* the response the handler built
    cancel_at,    \* the await point the request was cancelled at
    \* one OpenSSLCommand::execute (openssl.rs:173-271)
    e_pc,         \* the await point execute is suspended at
    left,         \* chunks of stdin_data that write_all has not written yet
    child,        \* the child process
    pipes,        \* the three pipes between execute and the child
    stdout_task,  \* the task draining the child's stdout
    stderr_task,  \* the task draining the child's stderr
    e_result      \* the Result execute returned

cmdVars == <<binary, args, secret_indices, stdin_data>>
opVars == <<pc, req, invs, files, result, loc, phase, base, orig>>

exVars == <<h_pc, operation, ctx, n_inv, h_result, response, cancel_at,
            e_pc, left, child, pipes, stdout_task, stderr_task, e_result>>

vars == <<cmdVars, opVars, exVars>>

(***************************************************************************)
(* Text helpers                                                            *)
(***************************************************************************)

\* n copies of the character c
Rep(c, n) == [i \in 1..n |-> c]

\* s contains t as a contiguous substring (str::contains)
Contains(s, t) ==
    \E i \in 0..(Len(s) - Len(t)) : SubSeq(s, i + 1, i + Len(t)) = t

\* Vec::contains
SeqContains(seq, x) == \E k \in 1..Len(seq) : seq[k] = x

RECURSIVE Join(_)
\* parts.join(" ")
Join(parts) ==
    IF Len(parts) = 0 THEN <<>>
    ELSE IF Len(parts) = 1 THEN parts[1]
    ELSE parts[1] \o <<" ">> \o Join(Tail(parts))

(***************************************************************************)
(* validators.rs: redact_secret                                            *)
(***************************************************************************)

\* mutant: keeps the first and last 4 characters of every value, short or not
redact_secret_no_short_mask(secret) ==
    IF Len(secret) < 4 THEN secret
    ELSE SubSeq(secret, 1, 4) \o <<".", ".", ".">>
         \o SubSeq(secret, Len(secret) - 3, Len(secret))

\* bytes of the UTF-8 encoding of a character; "U+00E9" stands for the
\* two-byte character e-acute, "U+20AC" for the three-byte euro sign, every
\* other character here is ASCII
Utf8Width(c) == IF c = "U+00E9" THEN 2 ELSE IF c = "U+20AC" THEN 3 ELSE 1

RECURSIVE str_len(_)
\* str::len: the length in bytes
str_len(s) == IF s = <<>> THEN 0 ELSE Utf8Width(Head(s)) + str_len(Tail(s))

\* str::is_char_boundary: byte offset n falls between two characters
is_char_boundary(s, n) == \E k \in 0..Len(s) : str_len(SubSeq(s, 1, k)) = n

\* the number of characters in front of the boundary at byte offset n
CharsBefore(s, n) == CHOOSE k \in 0..Len(s) : str_len(SubSeq(s, 1, k)) = n

\* a range index inside a character panics; the marker stands for the unwind
Panicked == <<"panicked: byte index is not a char boundary">>

\* lengths and both slices are taken in bytes
redact_secret(secret) ==
    IF str_len(secret) <= 8
    THEN Rep("*", str_len(secret))
    ELSE IF ~is_char_boundary(secret, 4)
            \/ ~is_char_boundary(secret, str_len(secret) - 4)
    THEN Panicked
    ELSE SubSeq(secret, 1, CharsBefore(secret, 4)) \o <<".", ".", ".">>
         \o SubSeq(secret, CharsBefore(secret, str_len(secret) - 4) + 1, Len(secret))

\* no ExecutionContext / child / pipes / task / result yet
NoCtx == [dir |-> "none", timeout_ms |-> 0]
NoChild == [pc |-> "none", ops |-> 0, code |-> 0, stdin_open |-> FALSE]
NoPipes == [stdin |-> 0, stdin_wr |-> FALSE, out |-> 0, err |-> 0]
NoTask == [st |-> "none", buf |-> 0]
NoExecResult ==
    [ok |-> FALSE, variant |-> "none", ms |-> 0, exit_code |-> 0, msg |-> <<>>]
NoResponse == [code |-> "none", ms |-> 0]

\* no execute in flight
IdleExecute ==
    /\ e_pc = "off"
    /\ left = 0
    /\ child = NoChild
    /\ pipes = NoPipes
    /\ stdout_task = NoTask
    /\ stderr_task = NoTask
    /\ e_result = NoExecResult

\* no request in the handler
IdleExec ==
    /\ h_pc = "off"
    /\ operation = ""
    /\ ctx = NoCtx
    /\ n_inv = 0
    /\ h_result = NoExecResult
    /\ response = NoResponse
    /\ cancel_at = "none"
    /\ IdleExecute

\* no provider call is modelled
IdleOp ==
    /\ pc = "off"
    /\ req = <<>>
    /\ invs = <<>>
    /\ files = <<>>
    /\ result = <<>>
    /\ loc = <<>>
    /\ phase = "off"
    /\ base = 0
    /\ orig = <<>>

(***************************************************************************)
(* openssl.rs: OpenSSLCommand builder                                      *)
(***************************************************************************)

MaxArgs == 3

OPENSSL == <<"o", "p", "e", "n", "s", "s", "l">>
XXD == <<"x", "x", "d">>

\* values handed to arg / secret_arg: short and long values, values made of
\* the characters the mask itself is made of, and values made of multi-byte
\* characters
CmdValues ==
    { <<"U+20AC", "U+20AC", "U+20AC">>,
      <<"*", "*">>,
      <<"a", "b", "c", "d", ".", ".", ".", "e", "f", "g", "h">>,
      <<"0", "1", "2", "3", "4", "5", "6", "7", "8", "9", "a", "b", "c", "d", "e", "f">>,
      <<"U+00E9", "U+00E9", "U+00E9">>,
      <<"a", "b", "c", "U+00E9", "d", "e", "f", "g", "h">> }

CmdPayloads == { <<>>, <<104, 105>> }

\* display_command: args are indexed from 0 in the source
display_command(show_secrets) ==
    Join(<<binary>> \o
         [i \in 1..Len(args) |->
            IF SeqContains(secret_indices, i - 1) /\ ~show_secrets
            THEN redact_secret(args[i])
            ELSE args[i]])

redacted_command == display_command(FALSE)

\* config.rs:20
SHOW_SECRETS_IN_COMMAND == FALSE

\* ExecutionContext::new copies the configuration flag
ctx_show_secrets == SHOW_SECRETS_IN_COMMAND

\* a secret argument whose mask cannot be sliced: display_command unwinds
RenderingPanics ==
    \E k \in 1..Len(secret_indices) :
        redact_secret(args[secret_indices[k] + 1]) = Panicked

NoCommandText == <<>>

\* mutant: execute renders command_display with the secrets shown
ExecutionResult_raw_display(show_secrets) ==
    [variant |-> "Ok",
     command_display |-> display_command(TRUE),
     command_redacted |-> redacted_command]

\* the two command texts of the ExecutionResult that execute returns
ExecutionResult(show_secrets) ==
    [variant |-> "Ok",
     command_display |-> display_command(show_secrets),
     command_redacted |-> redacted_command]

\* execute returned an OpenSSLError: no command text leaves it
ExecutionError ==
    [variant |-> "Err",
     command_display |-> NoCommandText,
     command_redacted |-> NoCommandText]

\* execute unwound while it rendered the command
ExecutionPanic ==
    [variant |-> "panic",
     command_display |-> NoCommandText,
     command_redacted |-> NoCommandText]

\* the CommandInfo of a success response
CommandInfo(command_display, command_redacted) ==
    [executed |-> IF SHOW_SECRETS_IN_COMMAND
                  THEN command_display ELSE command_redacted,
     redacted |-> ~SHOW_SECRETS_IN_COMMAND]

InitCmd ==
    /\ binary \in {OPENSSL, XXD}
    /\ args = <<>>
    /\ secret_indices = <<>>
    /\ stdin_data = <<"None">>
    /\ IdleOp
    /\ IdleExec

\* one call on the builder, kept in orig as the history of the calls that
\* added an argument
Called(method, v) == [method |-> method, value |-> v]

cmdRest == <<pc, req, invs, files, result, loc, phase, base, exVars>>

CmdArg ==
    \E v \in CmdValues :
        /\ pc = "off"
        /\ Len(args) < MaxArgs
        /\ args' = Append(args, v)
        /\ orig' = Append(orig, Called("arg", v))
        /\ UNCHANGED <<binary, secret_indices, stdin_data, cmdRest>>

\* mutant: the index is taken after the push
CmdSecretArg_index_after_push ==
    \E v \in CmdValues :
        /\ pc = "off"
        /\ Len(args) < MaxArgs
        /\ secret_indices' = Append(secret_indices, Len(args) + 1)
        /\ args' = Append(args, v)
        /\ orig' = Append(orig, Called("secret_arg", v))
        /\ UNCHANGED <<binary, stdin_data, cmdRest>>

CmdSecretArg ==
    \E v \in CmdValues :
        /\ pc = "off"
        /\ Len(args) < MaxArgs
        /\ secret_indices' = Append(secret_indices, Len(args))
        /\ args' = Append(args, v)
        /\ orig' = Append(orig, Called("secret_arg", v))
        /\ UNCHANGED <<binary, stdin_data, cmdRest>>

CmdStdin ==
    \E d \in CmdPayloads :
        /\ pc = "off"
        /\ stdin_data' = <<"Some", d>>
        /\ UNCHANGED <<binary, args, secret_indices, opVars, exVars>>

\* execute(self, ctx) consumes the builder: both renderings are made first,
\* then the tool runs and either an ExecutionResult or an error comes back
CmdExecute ==
    \E outcome \in {"Ok", "Err"} :
        /\ pc = "off"
        /\ result' = IF RenderingPanics THEN ExecutionPanic
                     ELSE IF outcome = "Ok" THEN ExecutionResult(ctx_show_secrets)
                     ELSE ExecutionError
        /\ pc' = "executed"
        /\ UNCHANGED <<cmdVars, req, invs, files, loc, phase, base, orig, exVars>>

\* a handler hands the two texts of its ExecutionResult to execute_handler,
\* whose final match builds the response
CmdRespond ==
    /\ pc = "executed"
    /\ result.variant # "panic"
    /\ response' = IF result.variant = "Ok"
                   THEN [success |-> TRUE,
                         command |-> CommandInfo(result.command_display,
                                                 result.command_redacted)]
                   ELSE [success |-> FALSE,
                         command |-> [executed |-> NoCommandText,
                                      redacted |-> FALSE]]
    /\ pc' = "responded"
    /\ UNCHANGED <<cmdVars, req, invs, files, result, loc, phase, base, orig,
                   h_pc, operation, ctx, n_inv, h_result, cancel_at,
                   e_pc, left, child, pipes, stdout_task, stderr_task, e_result>>

NextCmd == CmdArg \/ CmdSecretArg \/ CmdStdin \/ CmdExecute \/ CmdRespond

SpecCmd == InitCmd /\ [][NextCmd]_vars

\* the values added with secret_arg
SecretValues == { args[secret_indices[k] + 1] : k \in 1..Len(secret_indices) }

\* C3: the redacted command rendering never contains a value added with
\* secret_arg as a substring.
C3_RedactedHidesSecret ==
    \A s \in SecretValues : ~Contains(redacted_command, s)

\* what the claim prescribes for one secret value, counted in characters
MaskedByCharacters(s) ==
    IF Len(s) <= 8
    THEN Rep("*", Len(s))
    ELSE SubSeq(s, 1, 4) \o <<".", ".", ".">> \o SubSeq(s, Len(s) - 3, Len(s))

\* C24: in the redacted rendering a secret value of at most 8 characters is
\* replaced by as many '*' characters, a longer one by its first 4
\* characters, "..." and its last 4 characters, and the binary name and the
\* other arguments appear unchanged and in order.
C24_Redaction ==
    redacted_command =
        Join(<<binary>> \o
             [i \in 1..Len(args) |->
                IF SeqContains(secret_indices, i - 1)
                THEN MaskedByCharacters(args[i])
                ELSE args[i]])

(***************************************************************************)
(* Results, options, hex text                                              *)
(***************************************************************************)

Ok(v) == [ok |-> TRUE, v |-> v, err |-> "none"]
Err(e) == [ok |-> FALSE, v |-> <<>>, err |-> e]

Some(v) == [some |-> TRUE, v |-> v]
NoText == [some |-> FALSE, v |-> <<>>]
NoName == [some |-> FALSE, v |-> ""]

RECURSIVE SumSeq(_)
SumSeq(q) == IF Len(q) = 0 THEN 0 ELSE Head(q) + SumSeq(Tail(q))

HexDigits ==
    <<"0", "1", "2", "3", "4", "5", "6", "7", "8", "9", "a", "b", "c", "d", "e", "f">>

\* value of a hex digit of either case, -1 for any other character
HexVal(c) ==
    CASE c = "0" -> 0 [] c = "1" -> 1 [] c = "2" -> 2 [] c = "3" -> 3
      [] c = "4" -> 4 [] c = "5" -> 5 [] c = "6" -> 6 [] c = "7" -> 7
      [] c = "8" -> 8 [] c = "9" -> 9
      [] c \in {"a", "A"} -> 10 [] c \in {"b", "B"} -> 11
      [] c \in {"c", "C"} -> 12 [] c \in {"d", "D"} -> 13
      [] c \in {"e", "E"} -> 14 [] c \in {"f", "F"} -> 15
      [] OTHER -> -1

\* hex::encode (lower case), as the tool prints digests and random bytes
HexEnc(bytes) ==
    [i \in 1..(2 * Len(bytes)) |->
        IF i % 2 = 1 THEN HexDigits[(bytes[(i + 1) \div 2] \div 16) + 1]
        ELSE HexDigits[(bytes[i \div 2] % 16) + 1]]

\* hex::decode: odd length or a non-hex character is an error; "" decodes to <<>>
hex_decode(hex) ==
    IF Len(hex) % 2 # 0 THEN Err("OddLength")
    ELSE IF \E i \in 1..Len(hex) : HexVal(hex[i]) < 0 THEN Err("InvalidHexCharacter")
    ELSE Ok([i \in 1..(Len(hex) \div 2) |->
                16 * HexVal(hex[2 * i - 1]) + HexVal(hex[2 * i])])

\* HEX_REGEX ^[0-9a-fA-F]+$
HEX_REGEX_is_match(hex) ==
    Len(hex) > 0 /\ \A i \in 1..Len(hex) : HexVal(hex[i]) >= 0

WhiteSpace == {" ", "\n", "\t", "\r"}

RECURSIVE TrimStart(_)
TrimStart(t) ==
    IF Len(t) > 0 /\ Head(t) \in WhiteSpace THEN TrimStart(Tail(t)) ELSE t

RECURSIVE TrimEnd(_)
TrimEnd(t) ==
    IF Len(t) > 0 /\ t[Len(t)] \in WhiteSpace THEN TrimEnd(SubSeq(t, 1, Len(t) - 1)) ELSE t

\* str::trim
Trim(t) == TrimEnd(TrimStart(t))

RECURSIVE TakeWord(_)
TakeWord(t) ==
    IF Len(t) = 0 \/ Head(t) \in WhiteSpace THEN <<>>
    ELSE <<Head(t)>> \o TakeWord(Tail(t))

\* output.split_whitespace().next().unwrap_or("").trim()
FirstToken(t) == Trim(TakeWord(TrimStart(t)))

(***************************************************************************)
(* config.rs                                                               *)
(***************************************************************************)

MAX_INPUT_SIZE == 1048576

ALLOWED_HASH_ALGOS ==
    {"sha256", "sha384", "sha512", "sha3-256", "sha3-512", "md5", "blake2b512",
     "blake2s256"}

ALLOWED_SYMMETRIC_CIPHERS ==
    {"aes-128-cbc", "aes-192-cbc", "aes-256-cbc", "chacha20", "des-ede3-cbc"}

get_cipher_key_length(cipher) ==
    CASE cipher = "aes-128-cbc" -> [some |-> TRUE, v |-> 16]
      [] cipher = "aes-192-cbc" -> [some |-> TRUE, v |-> 24]
      [] cipher = "aes-256-cbc" -> [some |-> TRUE, v |-> 32]
      [] cipher = "chacha20" -> [some |-> TRUE, v |-> 32]
      [] cipher = "des-ede3-cbc" -> [some |-> TRUE, v |-> 24]
      [] OTHER -> [some |-> FALSE, v |-> 0]

\* mutant: the IV length is looked up in the key-length table
get_cipher_iv_length_from_key_table(cipher) == get_cipher_key_length(cipher)

get_cipher_iv_length(cipher) ==
    CASE cipher \in {"aes-128-cbc", "aes-192-cbc", "aes-256-cbc"} -> [some |-> TRUE, v |-> 16]
      [] cipher = "chacha20" -> [some |-> TRUE, v |-> 16]
      [] cipher = "des-ede3-cbc" -> [some |-> TRUE, v |-> 8]
      [] OTHER -> [some |-> FALSE, v |-> 0]

(***************************************************************************)
(* validators.rs                                                           *)
(***************************************************************************)

\* str::to_lowercase on the algorithm and cipher names the model draws
to_lowercase(name) ==
    CASE name = "AES-128-CBC" -> "aes-128-cbc"
      [] name = "SHA256" -> "sha256"
      [] name = "SHA3-512" -> "sha3-512"
      [] name = "Md5" -> "md5"
      [] name = "SHA1" -> "sha1"
      [] name = "ChaCha20" -> "chacha20"
      [] name = "DES-EDE3-CBC" -> "des-ede3-cbc"
      [] name = "AES-256-GCM" -> "aes-256-gcm"
      [] name = "MLDSA44" -> "mldsa44"
      [] name = "MlDsa65" -> "mldsa65"
      [] name = "Dilithium2" -> "dilithium2"
      [] name = "DILITHIUM5" -> "dilithium5"
      [] name = "FALCON-512" -> "falcon-512"
      [] name = "Falcon-1024" -> "falcon-1024"
      [] name = "FalconPadded512" -> "falconpadded512"
      [] name = "Dilithium4" -> "dilithium4"
      [] name = "MLKEM1024" -> "mlkem1024"
      [] name = "Kyber768" -> "kyber768"
      [] name = "KYBER512" -> "kyber512"
      [] name = "Kyber" -> "kyber"
      [] OTHER -> name

\* validate_size, on the byte length of the data
validate_size(len, max_size) ==
    IF len > max_size THEN Err("SizeLimitExceeded") ELSE Ok(<<>>)

validate_hex(hex) ==
    IF Len(hex) % 2 # 0 THEN Err("InvalidHex")
    ELSE IF ~HEX_REGEX_is_match(hex) THEN Err("InvalidHex")
    ELSE IF hex_decode(hex).ok THEN hex_decode(hex) ELSE Err("InvalidHex")

\* ValidationError::InvalidKeyLength / InvalidIvLength { expected, actual }
LengthMismatch(e, expected, actual) == [ok |-> FALSE, v |-> <<expected, actual>>, err |-> e]

validate_aes_key(key_hex, cipher) ==
    LET expected_len == get_cipher_key_length(cipher)
        key_bytes == validate_hex(key_hex)
    IN  IF ~expected_len.some THEN Err("UnsupportedAlgorithm")
        ELSE IF ~key_bytes.ok THEN key_bytes
        ELSE IF Len(key_bytes.v) # expected_len.v
        THEN LengthMismatch("InvalidKeyLength", expected_len.v, Len(key_bytes.v))
        ELSE key_bytes

validate_aes_iv(iv_hex, cipher) ==
    LET expected_len == get_cipher_iv_length(cipher)
        iv_bytes == validate_hex(iv_hex)
    IN  IF ~expected_len.some THEN Err("UnsupportedAlgorithm")
        ELSE IF ~iv_bytes.ok THEN iv_bytes
        ELSE IF Len(iv_bytes.v) # expected_len.v
        THEN LengthMismatch("InvalidIvLength", expected_len.v, Len(iv_bytes.v))
        ELSE iv_bytes

validate_hash_algo(algo) ==
    IF to_lowercase(algo) \in ALLOWED_HASH_ALGOS
    THEN [ok |-> TRUE, v |-> to_lowercase(algo), err |-> "none"]
    ELSE [ok |-> FALSE, v |-> "", err |-> "UnsupportedAlgorithm"]

validate_cipher(cipher) ==
    IF to_lowercase(cipher) \in ALLOWED_SYMMETRIC_CIPHERS
    THEN [ok |-> TRUE, v |-> to_lowercase(cipher), err |-> "none"]
    ELSE [ok |-> FALSE, v |-> "", err |-> "UnsupportedAlgorithm"]

\* INJECTION_REGEX: semicolon, ampersand, pipe, backtick, dollar, LF, CR, backslash
\* ("bq" stands for the backtick character, which a TLA+ string cannot hold)
InjectionChars == {";", "&", "|", "bq", "$", "\n", "\r", "\\"}

check_injection(input) ==
    IF \E i \in 1..Len(input) : input[i] \in InjectionChars
    THEN Err("InjectionDetected")
    ELSE Ok(<<>>)

\* the Display text of every ValidationError starts a message of this set
ValidationErrors ==
    {"SizeLimitExceeded", "InvalidHex", "InvalidBase64", "InvalidKeyLength",
     "InvalidIvLength", "UnsupportedAlgorithm", "InjectionDetected"}

(***************************************************************************)
(* Data handled by the tool.  A byte string too long to enumerate is a     *)
(* record: what it is (plaintext id, or the ciphertext of a plaintext      *)
(* under a cipher, key and IV) and its length in bytes.                    *)
(***************************************************************************)

NoData ==
    [kind |-> "none", id |-> 0, plen |-> 0, len |-> 0, cipher |-> "",
     key |-> <<>>, iv |-> <<>>]

Plain(id, n) ==
    [kind |-> "plain", id |-> id, plen |-> n, len |-> n, cipher |-> "",
     key |-> <<>>, iv |-> <<>>]

Garbage(n) ==
    [kind |-> "garbage", id |-> 0, plen |-> n, len |-> n, cipher |-> "",
     key |-> <<>>, iv |-> <<>>]

\* block size of the cipher; chacha20 is a stream cipher
BlockSize(cipher) ==
    CASE cipher \in {"aes-128-cbc", "aes-192-cbc", "aes-256-cbc"} -> 16
      [] cipher = "des-ede3-cbc" -> 8
      [] OTHER -> 1

\* length of `openssl enc -e` output: a block cipher pads to the next full block
CtLen(cipher, n) ==
    IF BlockSize(cipher) = 1 THEN n
    ELSE (n \div BlockSize(cipher) + 1) * BlockSize(cipher)

\* openssl enc -<cipher> -e -K <key> -iv <iv> -in plaintext.bin -out ciphertext.bin
EncTool(cipher, key, iv, p) ==
    [kind |-> "cipher", id |-> p.id, plen |-> p.len, len |-> CtLen(cipher, p.len),
     cipher |-> cipher, key |-> key, iv |-> iv]

\* openssl enc -<cipher> -d: the plaintext when cipher, key and IV are those the
\* ciphertext was made with
DecMatches(cipher, key, iv, c) ==
    c.kind = "cipher" /\ c.cipher = cipher /\ c.key = key /\ c.iv = iv

DecTool(cipher, key, iv, c) ==
    IF DecMatches(cipher, key, iv, c) THEN Plain(c.id, c.plen) ELSE Garbage(c.len)

DigestLen == 2

DataCode(d) ==
    (IF d.kind = "cipher" THEN 101 ELSE 7) + 13 * d.id + (d.len % 251)
    + SumSeq(d.key) + 3 * SumSeq(d.iv)

\* openssl dgst -sha256 -mac hmac -macopt hexkey:<key>: a digest of DigestLen
\* bytes that depends on the key and on the data
HmacTool(key, d) ==
    [i \in 1..DigestLen |-> (3 * SumSeq(key) + Len(key) + i * DataCode(d) + i) % 256]

\* `dgst -r` prints "<hex digest> *stdin"
DgstOutput(digest) ==
    HexEnc(digest) \o <<" ", "*", "s", "t", "d", "i", "n", "\n">>

\* the byte strings `openssl rand` may produce
RandBytes(n) == { [i \in 1..n |-> 17], [i \in 1..n |-> 250] }

\* base64 text: well formed (then it stands for its bytes) or not
B64(d) == [valid |-> TRUE, data |-> d]
BadB64 == [valid |-> FALSE, data |-> NoData]

BASE64_encode(d) == B64(d)
BASE64_decode(t) == IF t.valid THEN t.data ELSE NoData

(***************************************************************************)
(* Invocations: what OpenSSLCommand::execute was asked to run              *)
(***************************************************************************)

Invocation(tool, argv, stdin) ==
    [tool |-> tool, argv |-> argv, stdin |-> stdin, status |-> "running",
     stdout |-> <<>>, produced |-> NoData]

\* how execute ends: exit status 0, nonzero exit, or one of its errors
Statuses == {"exit0", "nonzero", "timeout", "too_large", "io"}

Completed(status, stdout, produced) ==
    [invs EXCEPT ![Len(invs)] =
        [@ EXCEPT !.status = status, !.stdout = stdout, !.produced = produced]]

NoVal ==
    [ct |-> BadB64, iv |-> <<>>, mac |-> <<>>, cipher |-> "", plaintext |-> NoData,
     hmac_verified |-> FALSE]

NoRes == [ok |-> FALSE, variant |-> "none", msg |-> "none", val |-> NoVal]

Failure(variant, msg) == [ok |-> FALSE, variant |-> variant, msg |-> msg, val |-> NoVal]
Success(val) == [ok |-> TRUE, variant |-> "none", msg |-> "none", val |-> val]

\* the error execute(...).await? propagates, or the one made of a nonzero exit
ExecFailure(status) ==
    CASE status = "timeout" -> Failure("Timeout", "timeout_ms")
      [] status = "too_large" -> Failure("OutputTooLarge", "MAX_OUTPUT_SIZE")
      [] status = "io" -> Failure("IoError", "io")
      [] OTHER -> Failure("ExecutionFailed", "stderr")

NoLoc == [cipher |-> "", iv |-> <<>>, ct |-> NoData]

(***************************************************************************)
(* Provider calls.  One action runs the code from one await point of the   *)
(* call to the next: it ends when an invocation is issued (the call is     *)
(* suspended in execute) or when the call returns.                         *)
(***************************************************************************)

DEFAULT_CIPHER == "aes-256-cbc"

\* an argument: a literal of the source, a canonical name or a text value after
\* a literal prefix; where the value comes from ("const", "path", "tool" or
\* "caller") and the validator the call passed it through before ("none" if none)
Arg(lit, name, val, origin, by, secret) ==
    [lit |-> lit, name |-> name, val |-> val, origin |-> origin, by |-> by,
     secret |-> secret]

\* .arg("<literal>")
A(lit) == Arg(lit, "", <<>>, "const", "none", FALSE)

\* the call returns res
Finish(res, invsNow, filesNow) ==
    /\ pc' = "done"
    /\ result' = res
    /\ invs' = invsNow
    /\ files' = filesNow
    /\ UNCHANGED <<req, loc, phase, base, orig, cmdVars, exVars>>

\* the call issued an invocation and waits for execute at `label`
Suspend(label, invsNow, filesNow, locNow) ==
    /\ pc' = label
    /\ invs' = invsNow
    /\ files' = filesNow
    /\ loc' = locNow
    /\ UNCHANGED <<req, result, phase, base, orig, cmdVars, exVars>>

ValidationFailure(e) == Failure("ExecutionFailed", e)

\* ---- providers/hashing.rs ------------------------------------------------

\* hmac: openssl dgst -<algo> -hmac <key> -r
hmac_command(data, key, algo) ==
    Invocation("dgst-hmac",
        <<A("dgst"), Arg("-", algo, <<>>, "const", "validate_hash_algo", FALSE), A("-hmac"),
          Arg("", "", key, "caller", "none", TRUE), A("-r")>>,
        data)

HmacCall ==
    /\ pc = "start"
    /\ req.op = "hmac"
    /\ LET size == validate_size(req.data.len, MAX_INPUT_SIZE)
           algo == validate_hash_algo(req.algo)
       IN  IF ~size.ok THEN Finish(ValidationFailure(size.err), invs, files)
           ELSE IF ~algo.ok THEN Finish(ValidationFailure(algo.err), invs, files)
           ELSE Suspend("hmac_exec",
                        Append(invs, hmac_command(req.data, req.key, algo.v)),
                        files, loc)

HmacReturn ==
    /\ pc = "hmac_exec"
    /\ \E st \in Statuses, blank \in BOOLEAN :
         LET digest == HmacTool([i \in 1..Len(req.key) |-> Len(req.key[i])], req.data)
             out == IF st = "exit0" /\ ~blank THEN DgstOutput(digest) ELSE <<>>
         IN  IF st # "exit0"
             THEN Finish(ExecFailure(st), Completed(st, out, NoData), files)
             ELSE Finish(Success([NoVal EXCEPT !.mac = FirstToken(out)]),
                         Completed(st, out, NoData), files)

\* hmac_hex_key up to its execute: the validation error, if any
hmac_hex_key_validate(data, algorithm) ==
    IF ~validate_size(data.len, MAX_INPUT_SIZE).ok
    THEN validate_size(data.len, MAX_INPUT_SIZE)
    ELSE IF ~validate_hash_algo(algorithm).ok THEN Err("UnsupportedAlgorithm")
    ELSE Ok(<<>>)

\* hmac_hex_key: openssl dgst -<algo> -mac hmac -macopt hexkey:<key> -r
hmac_hex_key_command(data, key_hex, algorithm) ==
    Invocation("dgst-mac",
        <<A("dgst"), Arg("-", validate_hash_algo(algorithm).v, <<>>, "const", "validate_hash_algo", FALSE),
          A("-mac"), A("hmac"), A("-macopt"),
          Arg("hexkey:", "", key_hex, "caller", "validate_hex", TRUE), A("-r")>>,
        data)

\* what the dgst tool prints for hmac_hex_key's invocation
hmac_hex_key_stdout(data, key_hex, blank) ==
    IF blank THEN <<>> ELSE DgstOutput(HmacTool(hex_decode(key_hex).v, data))

\* ---- providers/symmetric.rs: aes_encrypt -----------------------------------

\* mutant: the MAC is computed over the plaintext
mac_input_plaintext(ciphertext, plaintext) == plaintext

\* aes_encrypt: the data handed to hmac_hex_key (symmetric.rs:161)
aes_encrypt_mac_input(ciphertext, plaintext) == ciphertext

enc_command(mode, cipher, key_hex, iv_hex, iv_origin, infile, outfile) ==
    Invocation(mode,
        <<A("enc"), Arg("-", cipher, <<>>, "const", "validate_cipher", FALSE),
          A(IF mode = "enc-e" THEN "-e" ELSE "-d"), A("-K"),
          Arg("", "", key_hex, "caller", "validate_aes_key", TRUE), A("-iv"),
          Arg("", "", iv_hex, iv_origin,
              IF iv_origin = "caller" THEN "validate_aes_iv" ELSE "none", FALSE),
          A("-in"), Arg(infile, "", <<>>, "path", "none", FALSE), A("-out"),
          Arg(outfile, "", <<>>, "path", "none", FALSE)>>,
        NoData)

RECURSIVE to_string(_)
\* usize::to_string
to_string(n) ==
    IF n < 10 THEN <<HexDigits[n + 1]>>
    ELSE to_string(n \div 10) \o <<HexDigits[(n % 10) + 1]>>

rand_hex_command(n) ==
    Invocation("rand",
        <<A("rand"), A("-hex"), Arg("", "", to_string(n), "const", "none", FALSE)>>, NoData)

\* aes_encrypt from the point the IV is known (symmetric.rs:128-150)
AesEncryptWithIv(cipher, iv_hex, iv_origin, invsNow) ==
    LET mk == validate_hex(req.mac_key)
    IN  IF ~mk.ok THEN Finish(ValidationFailure(mk.err), invsNow, files)
        ELSE \E written \in BOOLEAN :
               IF ~written THEN Finish(Failure("IoError", "io"), invsNow, files)
               ELSE Suspend("enc_cipher",
                        Append(invsNow,
                               enc_command("enc-e", cipher, req.key, iv_hex, iv_origin,
                                           "plaintext.bin", "ciphertext.bin")),
                        [files EXCEPT !.plaintext = req.data],
                        [loc EXCEPT !.cipher = cipher, !.iv = iv_hex])

AesEncryptCall ==
    /\ pc = "start"
    /\ req.op = "aes_encrypt"
    /\ LET cv == validate_cipher(IF req.cipher.some THEN req.cipher.v ELSE DEFAULT_CIPHER)
           size == validate_size(req.data.len, MAX_INPUT_SIZE)
       IN  IF ~cv.ok THEN Finish(ValidationFailure(cv.err), invs, files)
           ELSE IF ~size.ok THEN Finish(ValidationFailure(size.err), invs, files)
           ELSE IF ~validate_aes_key(req.key, cv.v).ok
           THEN Finish(ValidationFailure(validate_aes_key(req.key, cv.v).err), invs, files)
           ELSE IF req.iv.some
           THEN IF ~validate_aes_iv(req.iv.v, cv.v).ok
                THEN Finish(ValidationFailure(validate_aes_iv(req.iv.v, cv.v).err),
                            invs, files)
                ELSE AesEncryptWithIv(cv.v, req.iv.v, "caller", invs)
           ELSE LET iv_len == IF get_cipher_iv_length(cv.v).some
                              THEN get_cipher_iv_length(cv.v).v ELSE 16
                IN  Suspend("enc_rand", Append(invs, rand_hex_command(iv_len)), files,
                            [loc EXCEPT !.cipher = cv.v])

AesEncryptIvReturn ==
    /\ pc = "enc_rand"
    /\ \E st \in Statuses :
         IF st # "exit0"
         THEN Finish(ExecFailure(st), Completed(st, <<>>, NoData), files)
         ELSE \E bytes \in RandBytes(get_cipher_iv_length(loc.cipher).v) :
                LET out == HexEnc(bytes) \o <<"\n">>
                IN  AesEncryptWithIv(loc.cipher, Trim(out), "tool",
                                     Completed(st, out, NoData))

AesEncryptCipherReturn ==
    /\ pc = "enc_cipher"
    /\ \E st \in Statuses :
         IF st # "exit0"
         THEN Finish(ExecFailure(st), Completed(st, <<>>, NoData), files)
         ELSE LET ciphertext == EncTool(loc.cipher, hex_decode(req.key).v,
                                        hex_decode(loc.iv).v, files.plaintext)
                  done == Completed(st, <<>>, ciphertext)
                  filesNow == [files EXCEPT !.ciphertext = ciphertext]
                  data == aes_encrypt_mac_input(filesNow.ciphertext, req.data)
                  check == hmac_hex_key_validate(data, "sha256")
              IN  IF ~check.ok THEN Finish(ValidationFailure(check.err), done, filesNow)
                  ELSE Suspend("enc_mac",
                               Append(done, hmac_hex_key_command(data, req.mac_key, "sha256")),
                               filesNow, [loc EXCEPT !.ct = filesNow.ciphertext])

AesEncryptMacReturn ==
    /\ pc = "enc_mac"
    /\ \E st \in Statuses, blank \in BOOLEAN :
         LET out == IF st = "exit0"
                    THEN hmac_hex_key_stdout(invs[Len(invs)].stdin, req.mac_key, blank)
                    ELSE <<>>
         IN  IF st # "exit0"
             THEN Finish(ExecFailure(st), Completed(st, out, NoData), files)
             ELSE Finish(Success([NoVal EXCEPT !.ct = BASE64_encode(loc.ct),
                                               !.iv = loc.iv,
                                               !.mac = FirstToken(out),
                                               !.cipher = loc.cipher]),
                         Completed(st, out, NoData), files)

\* ---- providers/symmetric.rs: aes_decrypt -----------------------------------

\* an exit 0 whose output does not start with a hex digest
NotADigest == <<"H", "M", "A", "C", "(", "s", "t", "d", "i", "n", ")", "=", " ", "a", "1", "\n">>

\* mutant: the computed bytes need only be a prefix of the expected ones
hmac_matches_computed_prefix(expected_bytes, computed_bytes) ==
    /\ Len(computed_bytes) <= Len(expected_bytes)
    /\ SubSeq(expected_bytes, 1, Len(computed_bytes)) = computed_bytes

\* mutant: the comparison checks the length only
hmac_matches_length_only(expected_bytes, computed_bytes) ==
    Len(expected_bytes) = Len(computed_bytes)

\* aes_decrypt: expected_bytes.len() == computed_bytes.len() and ct_eq
hmac_matches(expected_bytes, computed_bytes) ==
    /\ Len(expected_bytes) = Len(computed_bytes)
    /\ expected_bytes = computed_bytes

AesDecryptCall ==
    /\ pc = "start"
    /\ req.op = "aes_decrypt"
    /\ LET cv == validate_cipher(IF req.cipher.some THEN req.cipher.v ELSE DEFAULT_CIPHER)
           ciphertext == BASE64_decode(req.ct)
       IN  IF ~cv.ok THEN Finish(ValidationFailure(cv.err), invs, files)
           ELSE IF ~validate_aes_key(req.key, cv.v).ok
           THEN Finish(ValidationFailure(validate_aes_key(req.key, cv.v).err), invs, files)
           ELSE IF ~validate_aes_iv(req.iv.v, cv.v).ok
           THEN Finish(ValidationFailure(validate_aes_iv(req.iv.v, cv.v).err), invs, files)
           ELSE IF ~validate_hex(req.mac_key).ok
           THEN Finish(ValidationFailure(validate_hex(req.mac_key).err), invs, files)
           ELSE IF ~validate_hex(req.mac).ok
           THEN Finish(ValidationFailure(validate_hex(req.mac).err), invs, files)
           ELSE IF ~req.ct.valid
           THEN Finish(Failure("ExecutionFailed", "Invalid base64"), invs, files)
           ELSE IF ~validate_size(ciphertext.len, MAX_INPUT_SIZE).ok
           THEN Finish(ValidationFailure("SizeLimitExceeded"), invs, files)
           ELSE IF ~hmac_hex_key_validate(ciphertext, "sha256").ok
           THEN Finish(ValidationFailure(hmac_hex_key_validate(ciphertext, "sha256").err),
                       invs, files)
           ELSE Suspend("dec_mac",
                        Append(invs, hmac_hex_key_command(ciphertext, req.mac_key, "sha256")),
                        files,
                        [loc EXCEPT !.cipher = cv.v, !.iv = req.iv.v, !.ct = ciphertext])

AesDecryptMacReturn ==
    /\ pc = "dec_mac"
    /\ \E st \in Statuses, shape \in {"digest", "blank", "text"} :
         LET out == IF st # "exit0" THEN <<>>
                    ELSE IF shape = "text" THEN NotADigest
                    ELSE hmac_hex_key_stdout(invs[Len(invs)].stdin, req.mac_key,
                                             shape = "blank")
             done == Completed(st, out, NoData)
             expected_bytes == hex_decode(req.mac)
             computed_bytes == hex_decode(FirstToken(out))
         IN  IF st # "exit0" THEN Finish(ExecFailure(st), done, files)
             ELSE IF ~expected_bytes.ok
             THEN Finish(Failure("ExecutionFailed", "Invalid HMAC hex"), done, files)
             ELSE IF ~computed_bytes.ok
             THEN Finish(Failure("ExecutionFailed", "Invalid HMAC hex"), done, files)
             ELSE IF ~hmac_matches(expected_bytes.v, computed_bytes.v)
             THEN Finish(Failure("ExecutionFailed", "HMAC verification failed"), done, files)
             ELSE \E written \in BOOLEAN :
                    IF ~written THEN Finish(Failure("IoError", "io"), done, files)
                    ELSE Suspend("dec_cipher",
                             Append(done,
                                    enc_command("enc-d", loc.cipher, req.key, loc.iv, "caller",
                                                "ciphertext.bin", "plaintext.bin")),
                             [files EXCEPT !.ciphertext = loc.ct], loc)

AesDecryptCipherReturn ==
    /\ pc = "dec_cipher"
    /\ \E st \in Statuses :
         IF st # "exit0"
         THEN Finish(ExecFailure(st), Completed(st, <<>>, NoData), files)
         ELSE LET plaintext == DecTool(loc.cipher, hex_decode(req.key).v,
                                       hex_decode(loc.iv).v, files.ciphertext)
              IN  Finish(Success([NoVal EXCEPT !.plaintext = plaintext,
                                                !.hmac_verified = TRUE]),
                         Completed(st, <<>>, plaintext),
                         [files EXCEPT !.plaintext = plaintext])

\* test_aes_roundtrip: what aes_encrypt returned is fed to aes_decrypt with the
\* same key, MAC key and cipher, on the same ExecutionContext
RoundTripFeed ==
    /\ pc = "done"
    /\ phase = "single"
    /\ req.op = "aes_encrypt"
    /\ result.ok
    /\ pc' = "start"
    /\ phase' = "fed"
    /\ req' = [req EXCEPT !.op = "aes_decrypt",
                          !.ct = result.val.ct,
                          !.iv = Some(result.val.iv),
                          !.mac = result.val.mac]
    /\ result' = NoRes
    /\ loc' = NoLoc
    /\ base' = Len(invs)
    /\ UNCHANGED <<invs, files, orig, cmdVars, exVars>>

(***************************************************************************)
(* The calls the model makes                                               *)
(***************************************************************************)

\* hex text of n bytes
Hx(n) == [i \in 1..(2 * n) |-> IF i % 2 = 1 THEN "a" ELSE "1"]

\* the same hex text in upper case
Upper(hex) ==
    [i \in 1..Len(hex) |->
        CASE hex[i] = "a" -> "A" [] hex[i] = "b" -> "B" [] hex[i] = "c" -> "C"
          [] hex[i] = "d" -> "D" [] hex[i] = "e" -> "E" [] hex[i] = "f" -> "F"
          [] OTHER -> hex[i]]

KeyInputs == {Hx(32), Hx(24), Hx(16), Rep("a", 63), Rep("g", 64)}
IvInputs == {Some(Hx(16)), Some(Hx(8)), Some(Rep("z", 32))}
MacKeyInputs == {Hx(32), <<"0", "f">>, <<"z", "z">>, <<>>}
CipherInputs ==
    {NoName, Some("aes-256-cbc"), Some("AES-128-CBC"), Some("aes-192-cbc"),
     Some("chacha20"), Some("des-ede3-cbc"), Some("rc4")}
PlainInputs ==
    {Plain(1, 0), Plain(1, 5), Plain(1, MAX_INPUT_SIZE - 1), Plain(1, MAX_INPUT_SIZE),
     Plain(1, MAX_INPUT_SIZE + 1)}

\* a ciphertext somebody made with aes-256-cbc
SampleCiphertext ==
    EncTool("aes-256-cbc", hex_decode(Hx(32)).v, hex_decode(Hx(16)).v, Plain(2, 5))

CiphertextInputs ==
    {B64(SampleCiphertext), B64(Garbage(MAX_INPUT_SIZE + 1)), BadB64}

\* the MAC values a caller may send with a ciphertext: the right one in either
\* case, wrong ones of the right and of other lengths, and text that is no hex
MacInputs(mac_key, ct) ==
    LET good == IF validate_hex(mac_key).ok
                THEN HexEnc(HmacTool(hex_decode(mac_key).v, ct.data))
                ELSE Rep("0", 2 * DigestLen)
    IN  {good, Upper(good), Rep("0", Len(good)), SubSeq(good, 1, Len(good) - 2),
         good \o <<"0", "0">>, <<"z", "z">>, <<"a">>}

HmacKeyInputs ==
    { <<"s", "e", "c", "r", "e", "t">>, <<"k", ";", "x">>, <<"$", "(", "i", "d", ")">> }

NoReq ==
    [op |-> "none", data |-> NoData, key |-> <<>>, iv |-> NoText, mac_key |-> <<>>,
     mac |-> <<>>, cipher |-> NoName, ct |-> BadB64, algo |-> ""]

HmacRequests ==
    { [NoReq EXCEPT !.op = "hmac", !.data = d, !.key = k, !.algo = a] :
        d \in {Plain(1, 0), Plain(1, MAX_INPUT_SIZE), Plain(1, MAX_INPUT_SIZE + 1)},
        k \in HmacKeyInputs,
        a \in {"sha256", "SHA256", "md5", "crc32"} }

AesEncryptRequests ==
    { [NoReq EXCEPT !.op = "aes_encrypt", !.data = d, !.key = k, !.iv = i,
                    !.mac_key = m, !.cipher = c] :
        d \in PlainInputs, k \in KeyInputs, i \in IvInputs \cup {NoText},
        m \in MacKeyInputs, c \in CipherInputs }

AesDecryptRequests ==
    UNION { { [NoReq EXCEPT !.op = "aes_decrypt", !.ct = t, !.key = k, !.iv = i,
                            !.mac_key = m, !.mac = x, !.cipher = c] :
                x \in MacInputs(m, t) } :
            t \in CiphertextInputs, k \in KeyInputs, i \in IvInputs,
            m \in MacKeyInputs, c \in CipherInputs }

Requests == HmacRequests \cup AesEncryptRequests \cup AesDecryptRequests

\* no command is being built
IdleCmd ==
    /\ binary = <<>>
    /\ args = <<>>
    /\ secret_indices = <<>>
    /\ stdin_data = <<"None">>

Init ==
    /\ pc = "start"
    /\ req \in Requests
    /\ invs = <<>>
    /\ files = [plaintext |-> NoData, ciphertext |-> NoData]
    /\ result = NoRes
    /\ loc = NoLoc
    /\ phase = "single"
    /\ base = 0
    /\ orig = req
    /\ IdleCmd
    /\ IdleExec

Next ==
    \/ HmacCall
    \/ HmacReturn
    \/ AesEncryptCall
    \/ AesEncryptIvReturn
    \/ AesEncryptCipherReturn
    \/ AesEncryptMacReturn
    \/ AesDecryptCall
    \/ AesDecryptMacReturn
    \/ AesDecryptCipherReturn
    \/ RoundTripFeed

Spec == Init /\ [][Next]_vars

(***************************************************************************)
(* Properties of the provider calls                                        *)
(***************************************************************************)

\* the invocations the current call issued
CallInvs == SubSeq(invs, base + 1, Len(invs))

\* the MAC invocation m printed a hex digest
MacComputed(m) ==
    /\ m.tool = "dgst-mac"
    /\ m.status = "exit0"
    /\ Len(FirstToken(m.stdout)) > 0
    /\ hex_decode(FirstToken(m.stdout)).ok

\* the digest m printed is, byte for byte, the MAC the caller supplied
MacEqualsSupplied(m) ==
    /\ hex_decode(req.mac).ok
    /\ Len(hex_decode(req.mac).v) = Len(hex_decode(FirstToken(m.stdout)).v)
    /\ hex_decode(req.mac).v = hex_decode(FirstToken(m.stdout)).v

HmacVerificationFailed == Failure("ExecutionFailed", "HMAC verification failed")

\* C1: aes_decrypt issues the `enc -d` invocation only after the HMAC computed
\* over the received ciphertext was compared equal (same length, same bytes) to
\* the supplied MAC; when the two differ the call returns the authentication
\* error and has issued no decrypt invocation.
C1_VerifyBeforeDecrypt ==
    req.op = "aes_decrypt" =>
        /\ \A i \in 1..Len(CallInvs) :
              CallInvs[i].tool = "enc-d" =>
                  /\ i = 2
                  /\ MacComputed(CallInvs[1])
                  /\ CallInvs[1].stdin = BASE64_decode(req.ct)
                  /\ MacEqualsSupplied(CallInvs[1])
        /\ ( /\ Len(CallInvs) >= 1
             /\ MacComputed(CallInvs[1])
             /\ ~MacEqualsSupplied(CallInvs[1]) )
           => /\ pc = "done"
              /\ result = HmacVerificationFailed
              /\ \A i \in 1..Len(CallInvs) : CallInvs[i].tool # "enc-d"

\* a tampered MAC of the right length was rejected
C1_Witness ==
    /\ req.op = "aes_decrypt"
    /\ pc = "done"
    /\ Len(CallInvs) = 1
    /\ MacComputed(CallInvs[1])
    /\ Len(req.mac) = Len(FirstToken(CallInvs[1].stdout))
    /\ result = HmacVerificationFailed

\* C2: every caller-supplied value placed in an argument list was accepted by
\* a validator before, and holds no shell metacharacter.
C2_CallerArgsValidated ==
    \A i \in 1..Len(invs) : \A k \in 1..Len(invs[i].argv) :
        invs[i].argv[k].origin = "caller" =>
            /\ invs[i].argv[k].by # "none"
            /\ check_injection(invs[i].argv[k].val).ok

\* the call failed on a parameter that did not pass validation
IsValidationFailure(res) ==
    /\ ~res.ok
    /\ res.variant = "ExecutionFailed"
    /\ res.msg \in ValidationErrors \cup {"Invalid base64"}

\* C4: a call that returns a validation error has issued no invocation.
C4_NoInvocationOnValidationError ==
    (pc = "done" /\ IsValidationFailure(result)) => Len(CallInvs) = 0

\* C9: in aes_encrypt the MAC invocation is issued only after the cipher
\* invocation has exited 0, its data is the ciphertext that invocation
\* produced (not the plaintext), and nothing is issued after a failed cipher
\* invocation.
C9_CipherBeforeMac ==
    req.op = "aes_encrypt" =>
        \A i \in 1..Len(CallInvs) :
            /\ CallInvs[i].tool = "dgst-mac" =>
                  /\ i > 1
                  /\ CallInvs[i - 1].tool = "enc-e"
                  /\ CallInvs[i - 1].status = "exit0"
                  /\ CallInvs[i].stdin = CallInvs[i - 1].produced
                  /\ CallInvs[i].stdin.kind = "cipher"
                  /\ CallInvs[i].stdin # req.data
            /\ (CallInvs[i].tool = "enc-e" /\ CallInvs[i].status \notin {"running", "exit0"})
                  => i = Len(CallInvs)

\* aes_encrypt has issued its MAC invocation
C9_Witness ==
    /\ req.op = "aes_encrypt"
    /\ Len(CallInvs) >= 2
    /\ CallInvs[Len(CallInvs)].tool = "dgst-mac"

\* the parameters of an aes_encrypt call are all valid
ValidEncryptParams(r) ==
    LET cv == validate_cipher(IF r.cipher.some THEN r.cipher.v ELSE DEFAULT_CIPHER)
    IN  /\ r.data.len <= MAX_INPUT_SIZE
        /\ cv.ok
        /\ validate_aes_key(r.key, cv.v).ok
        /\ r.iv.some => validate_aes_iv(r.iv.v, cv.v).ok
        /\ validate_hex(r.mac_key).ok

\* every invocation so far exited 0 with the output the tool documents, and no
\* temp file write failed
ToolsWorked ==
    /\ \A i \in 1..Len(invs) :
          /\ invs[i].status \in {"running", "exit0"}
          /\ (invs[i].tool = "dgst-mac" /\ invs[i].status = "exit0")
                => Len(invs[i].stdout) > 0
    /\ result.variant # "IoError"

\* C10: for every plaintext within the input limit and valid key, IV, MAC key
\* and cipher, aes_encrypt returns a ciphertext, IV and MAC which aes_decrypt,
\* with the same key, MAC key and cipher, turns back into the plaintext with
\* hmac_verified = true.
C10_RoundTrip ==
    (orig.op = "aes_encrypt" /\ ValidEncryptParams(orig) /\ ToolsWorked /\ pc = "done") =>
        /\ result.ok
        /\ phase = "fed" =>
              /\ result.val.plaintext = orig.data
              /\ result.val.hmac_verified

(***************************************************************************)
(* routes.rs: execute_handler; openssl.rs: OpenSSLCommand::execute         *)
(*                                                                         *)
(* One request.  Stream data is counted in chunks of ChunkBytes bytes; a   *)
(* pipe holds at most PipeCap chunks.  The child process is arbitrary: it  *)
(* picks its next system call (read stdin, write stdout, write stderr,     *)
(* close stdin, sleep for ever, exit) and then blocks in it until the      *)
(* pipe lets it through.                                                   *)
(***************************************************************************)

PipeCap == 1
ChunkBytes == 524288
MaxChildOps == 5
MaxInvocations == 2

MAX_OUTPUT_SIZE == 2097152
EXECUTION_TIMEOUT_MS == 30000
RSA_KEYGEN_TIMEOUT_MS == 60000

\* mutant: the match without its "hash" arm
DispatchOperations_without_hash ==
    {"base64_encode", "base64_decode", "hex_encode", "hex_decode",
     "random_bytes", "random_hex", "random_base64", "hmac",
     "aes_keygen", "aes_encrypt", "aes_decrypt",
     "rsa_keygen", "rsa_pubkey", "rsa_sign", "rsa_verify", "rsa_encrypt",
     "rsa_decrypt", "pqc_sig_keygen", "pqc_sig_sign", "pqc_sig_verify"}

\* the arms of the dispatch match
DispatchOperations ==
    {"base64_encode", "base64_decode", "hex_encode", "hex_decode",
     "random_bytes", "random_hex", "random_base64", "hash", "hmac",
     "aes_keygen", "aes_encrypt", "aes_decrypt",
     "rsa_keygen", "rsa_pubkey", "rsa_sign", "rsa_verify", "rsa_encrypt",
     "rsa_decrypt", "pqc_sig_keygen", "pqc_sig_sign", "pqc_sig_verify"}

\* the operation names of the requests explored
RequestOperations ==
    {"base64_encode", "rsa_keygen", "bogus", "HASH", "pqc_kem_keygen", ""}

\* request.operation.contains("keygen"), over the names explored
contains_keygen(op) ==
    op \in {"aes_keygen", "rsa_keygen", "pqc_sig_keygen", "pqc_kem_keygen"}

\* the timeout execute_handler gives the ExecutionContext
handler_timeout(op) ==
    IF contains_keygen(op) THEN RSA_KEYGEN_TIMEOUT_MS ELSE EXECUTION_TIMEOUT_MS

\* error texts: the Display of two ValidationErrors (their leading words), and
\* two stderr texts of the tool
InvalidHexMsg == <<"I", "n", "v", "a", "l", "i", "d", " ", "h", "e", "x">>
SizeLimitExceededMsg ==
    <<"I", "n", "p", "u", "t", " ", "e", "x", "c", "e", "e", "d", "s">>
ValidationTexts == {InvalidHexMsg, SizeLimitExceededMsg}
StderrTexts ==
    { <<"b", "a", "d">>,
      <<"I", "n", "v", "a", "l", "i", "d", " ", "k", "e", "y">> }

ExecOk(code) ==
    [ok |-> TRUE, variant |-> "Ok", ms |-> 0, exit_code |-> code, msg |-> <<>>]
ExecErr(variant, ms, msg) ==
    [ok |-> FALSE, variant |-> variant, ms |-> ms, exit_code |-> 0, msg |-> msg]

\* a secret value that the two renderings treat differently
ShownDiffers == display_command(TRUE) # redacted_command

\* C36: with SHOW_SECRETS_IN_COMMAND = false the command_display of every
\* ExecutionResult equals its command_redacted, and the command text of a
\* success response is the redacted rendering with the redacted flag true.
C36_RedactedCommandText ==
    /\ (pc \in {"executed", "responded"} /\ result.variant = "Ok") =>
           result.command_display = result.command_redacted
    /\ (pc = "responded" /\ response.success) =>
           /\ response.command.executed = redacted_command
           /\ response.command.redacted

C36_Witness ==
    /\ pc = "responded"
    /\ response.success
    /\ secret_indices # <<>>
    /\ ShownDiffers

\* C39: after any sequence of arg, secret_arg and stdin calls every index in
\* secret_indices is less than the number of arguments, the indices are
\* distinct, the argument at a recorded index is the value a secret_arg call
\* added at that position, and no argument added by arg is recorded.
C39_SecretIndices ==
    /\ Len(orig) = Len(args)
    /\ \A k \in 1..Len(secret_indices) :
           /\ secret_indices[k] < Len(args)
           /\ orig[secret_indices[k] + 1] = Called("secret_arg", args[secret_indices[k] + 1])
    /\ \A j, k \in 1..Len(secret_indices) :
           j # k => secret_indices[j] # secret_indices[k]
    /\ \A i \in 1..Len(args) :
           orig[i].method = "arg" => ~SeqContains(secret_indices, i - 1)

C39_Witness ==
    /\ secret_indices = <<0, 2>>
    /\ Len(args) = 3
    /\ orig[2].method = "arg"
    /\ args[1] = args[2]
    /\ stdin_data[1] = "Some"

\* C38: building the redacted rendering ends with a value for every secret
\* argument: redact_secret aborts for no string, whatever its byte length and
\* wherever its 4th and 4th-from-last bytes fall, and so execute gets past
\* its two renderings.
C38_RedactNeverAborts ==
    /\ \A k \in 1..Len(secret_indices) :
           redact_secret(args[secret_indices[k] + 1]) # Panicked
    /\ pc = "executed" => result.variant # "panic"

\* the error branch of execute_handler's final match
error_code(e) ==
    IF e.variant = "Timeout" THEN "Timeout"
    ELSE IF e.variant = "ExecutionFailed"
    THEN IF \/ Contains(e.msg, <<"I", "n", "v", "a", "l", "i", "d">>)
            \/ Contains(e.msg, <<"v", "a", "l", "i", "d", "a", "t", "i", "o", "n">>)
         THEN "ValidationFailed"
         ELSE "OpenSSLError"
    ELSE IF e.variant = "OutputTooLarge" THEN "SizeLimitExceeded"
    ELSE "InternalError"

\* the response execute_handler builds from the provider's Result
make_response(r) ==
    IF r.ok THEN [code |-> "success", ms |-> 0]
    ELSE [code |-> error_code(r), ms |-> r.ms]

\* the child process has been spawned and has neither exited nor been killed
ChildRunning(c) == c.pc \in {"run", "want_in", "want_out", "want_err", "hung"}

\* the child's ends of the pipes are closed
ChildGone(c) == c.pc \in {"exited", "killed"}

\* Child::kill
kill(c) == IF ChildRunning(c) THEN [c EXCEPT !.pc = "killed"] ELSE c

\* a Command built without kill_on_drop
kill_on_drop_unset == FALSE

\* cmd.kill_on_drop(true)
kill_on_drop == TRUE

\* dropping the Child handle
drop_child(c) == IF kill_on_drop THEN kill(c) ELSE c

\* a context whose directory is kept when it is dropped
drop_ctx_keeps_dir(c) == c

\* dropping the ExecutionContext: TempDir's Drop removes the directory
drop_ctx(c) == IF c.dir = "exists" THEN [c EXCEPT !.dir = "removed"] ELSE c

\* a Timeout error carrying the default timeout
timeout_error_default(timeout_ms) == ExecErr("Timeout", EXECUTION_TIMEOUT_MS, <<>>)

\* OpenSSLError::Timeout(ctx.timeout_ms)
timeout_error(timeout_ms) == ExecErr("Timeout", timeout_ms, <<>>)

\* a cap that also refuses a stream of exactly MAX_OUTPUT_SIZE bytes
output_too_large_at_cap(out_chunks, err_chunks) ==
    \/ out_chunks * ChunkBytes >= MAX_OUTPUT_SIZE
    \/ err_chunks * ChunkBytes >= MAX_OUTPUT_SIZE

\* stdout.len() > MAX_OUTPUT_SIZE || stderr.len() > MAX_OUTPUT_SIZE
output_too_large(out_chunks, err_chunks) ==
    \/ out_chunks * ChunkBytes > MAX_OUTPUT_SIZE
    \/ err_chunks * ChunkBytes > MAX_OUTPUT_SIZE

\* the stdin_data a provider attaches: None, or Some of n chunks within the
\* input limit
StdinPayloads ==
    {[some |-> FALSE, chunks |-> 0]} \cup
    {[some |-> TRUE, chunks |-> n] : n \in {k \in 0..(PipeCap + 1) : k * ChunkBytes <= MAX_INPUT_SIZE}}

hVars == <<h_pc, operation, ctx, n_inv, h_result, response, cancel_at>>
eVars == <<e_pc, left, child, pipes, stdout_task, stderr_task, e_result>>

InitExec ==
    /\ IdleCmd
    /\ IdleOp
    /\ h_pc = "start"
    /\ operation \in RequestOperations
    /\ ctx = NoCtx
    /\ n_inv = 0
    /\ h_result = NoExecResult
    /\ response = NoResponse
    /\ cancel_at = "none"
    /\ IdleExecute

\* ExecutionContext::new(timeout): TempDir::new may fail
HandlerCreateCtx ==
    /\ h_pc = "start"
    /\ \E created \in BOOLEAN :
        IF created
        THEN /\ ctx' = [dir |-> "exists", timeout_ms |-> handler_timeout(operation)]
             /\ h_pc' = "dispatch"
             /\ UNCHANGED <<h_result, response>>
        ELSE /\ h_result' = ExecErr("TempDirError", 0, <<>>)
             /\ response' = [code |-> "InternalError", ms |-> 0]
             /\ h_pc' = "built"
             /\ UNCHANGED ctx
    /\ UNCHANGED <<operation, n_inv, cancel_at, eVars, cmdVars, opVars>>

\* the dispatch match: an unknown name returns early
HandlerDispatch ==
    /\ h_pc = "dispatch"
    /\ IF operation \in DispatchOperations
       THEN /\ h_pc' = "provider"
            /\ UNCHANGED response
       ELSE /\ response' = [code |-> "UnsupportedOperation", ms |-> 0]
            /\ h_pc' = "built"
    /\ UNCHANGED <<operation, ctx, n_inv, h_result, cancel_at, eVars, cmdVars, opVars>>

\* a provider rejects a parameter: map_err(ExecutionFailed(e.to_string()))?
ProviderValidationFails ==
    /\ h_pc = "provider"
    /\ \E text \in ValidationTexts :
        h_result' = ExecErr("ExecutionFailed", 0, text)
    /\ h_pc' = "result"
    /\ UNCHANGED <<operation, ctx, n_inv, response, cancel_at, eVars, cmdVars, opVars>>

\* a provider returns Ok after its invocations
ProviderSucceeds ==
    /\ h_pc = "provider"
    /\ n_inv >= 1
    /\ h_result' = ExecOk(0)
    /\ h_pc' = "result"
    /\ UNCHANGED <<operation, ctx, n_inv, response, cancel_at, eVars, cmdVars, opVars>>

\* execute returned to the provider: .await? and the exit_code check
ProviderResumes ==
    /\ h_pc = "executing"
    /\ e_pc = "returned"
    /\ IF ~e_result.ok
       THEN /\ h_result' = e_result
            /\ h_pc' = "result"
            /\ UNCHANGED n_inv
       ELSE IF e_result.exit_code # 0
       THEN /\ \E text \in StderrTexts :
                h_result' = ExecErr("ExecutionFailed", 0, text)
            /\ h_pc' = "result"
            /\ UNCHANGED n_inv
       ELSE /\ h_pc' = "provider"
            /\ n_inv' = n_inv + 1
            /\ UNCHANGED h_result
    /\ e_pc' = "off"
    /\ UNCHANGED <<operation, ctx, response, cancel_at,
                   left, child, pipes, stdout_task, stderr_task, e_result,
                   cmdVars, opVars>>

\* the final match on the provider's Result
HandlerBuildResponse ==
    /\ h_pc = "result"
    /\ response' = make_response(h_result)
    /\ h_pc' = "built"
    /\ UNCHANGED <<operation, ctx, n_inv, h_result, cancel_at, eVars, cmdVars, opVars>>

\* the handler returns: its locals, ctx among them, are dropped
HandlerReturn ==
    /\ h_pc = "built"
    /\ ctx' = drop_ctx(ctx)
    /\ h_pc' = "responded"
    /\ UNCHANGED <<operation, n_inv, h_result, response, cancel_at, eVars, cmdVars, opVars>>

\* openssl.rs:211-232: the stdout/stderr handles are taken, both drain tasks
\* are spawned, and select! polls child.wait(), which closes the child's stdin
StartDrains(p) ==
    /\ pipes' = [p EXCEPT !.stdin_wr = FALSE]
    /\ stdout_task' = [st |-> "running", buf |-> 0]
    /\ stderr_task' = [st |-> "running", buf |-> 0]
    /\ e_pc' = "select"

FreshPipes == [stdin |-> 0, stdin_wr |-> TRUE, out |-> 0, err |-> 0]

\* a provider calls execute: cmd.spawn()?, then the stdin write if any
ExecSpawn ==
    /\ h_pc = "provider"
    /\ n_inv < MaxInvocations
    /\ \E sd \in StdinPayloads, spawned \in BOOLEAN :
        IF ~spawned
        THEN /\ e_result' = ExecErr("IoError", 0, <<>>)
             /\ e_pc' = "returned"
             /\ UNCHANGED <<left, child, pipes, stdout_task, stderr_task>>
        ELSE /\ child' = [pc |-> "run", ops |-> MaxChildOps, code |-> 0,
                          stdin_open |-> TRUE]
             /\ e_result' = NoExecResult
             /\ IF sd.some /\ sd.chunks > 0
                THEN /\ left' = sd.chunks
                     /\ pipes' = FreshPipes
                     /\ stdout_task' = NoTask
                     /\ stderr_task' = NoTask
                     /\ e_pc' = "write_stdin"
                ELSE /\ left' = 0
                     /\ StartDrains(FreshPipes)
    /\ h_pc' = "executing"
    /\ UNCHANGED <<operation, ctx, n_inv, h_result, response, cancel_at, cmdVars, opVars>>

\* stdin.write_all(&data).await?; drop(stdin): one chunk goes into the pipe
\* when it has room; the write fails when the child no longer reads
ExecWriteStdin ==
    /\ h_pc = "executing"
    /\ e_pc = "write_stdin"
    /\ IF ChildGone(child) \/ ~child.stdin_open
       THEN /\ e_result' = ExecErr("IoError", 0, <<>>)
            /\ child' = drop_child(child)
            /\ pipes' = [pipes EXCEPT !.stdin_wr = FALSE]
            /\ e_pc' = "returned"
            /\ UNCHANGED <<left, stdout_task, stderr_task>>
       ELSE /\ pipes.stdin < PipeCap
            /\ left' = left - 1
            /\ IF left = 1
               THEN StartDrains([pipes EXCEPT !.stdin = @ + 1])
               ELSE /\ pipes' = [pipes EXCEPT !.stdin = @ + 1]
                    /\ UNCHANGED <<e_pc, stdout_task, stderr_task>>
            /\ UNCHANGED <<child, e_result>>
    /\ UNCHANGED <<hVars, cmdVars, opVars>>

\* select!: child.wait() resolves
ExecWaitExit ==
    /\ h_pc = "executing"
    /\ e_pc = "select"
    /\ child.pc = "exited"
    /\ e_pc' = "join_out"
    /\ UNCHANGED <<hVars, left, child, pipes, stdout_task, stderr_task, e_result,
                   cmdVars, opVars>>

\* select!: the sleep resolves; child.kill().await, child.wait().await
ExecTimeout ==
    /\ h_pc = "executing"
    /\ e_pc = "select"
    /\ child' = kill(child)
    /\ e_pc' = "timeout_join_out"
    /\ UNCHANGED <<hVars, left, pipes, stdout_task, stderr_task, e_result,
                   cmdVars, opVars>>

\* timeout branch: stdout_task.await
ExecTimeoutJoinOut ==
    /\ h_pc = "executing"
    /\ e_pc = "timeout_join_out"
    /\ stdout_task.st = "done"
    /\ e_pc' = "timeout_join_err"
    /\ UNCHANGED <<hVars, left, child, pipes, stdout_task, stderr_task, e_result,
                   cmdVars, opVars>>

\* timeout branch: stderr_task.await; return Err(Timeout(ctx.timeout_ms))
ExecTimeoutJoinErr ==
    /\ h_pc = "executing"
    /\ e_pc = "timeout_join_err"
    /\ stderr_task.st = "done"
    /\ e_result' = timeout_error(ctx.timeout_ms)
    /\ e_pc' = "returned"
    /\ UNCHANGED <<hVars, left, child, pipes, stdout_task, stderr_task,
                   cmdVars, opVars>>

\* stdout_task.await
ExecJoinOut ==
    /\ h_pc = "executing"
    /\ e_pc = "join_out"
    /\ stdout_task.st = "done"
    /\ e_pc' = "join_err"
    /\ UNCHANGED <<hVars, left, child, pipes, stdout_task, stderr_task, e_result,
                   cmdVars, opVars>>

\* stderr_task.await, the output size check, and the ExecutionResult
ExecJoinErr ==
    /\ h_pc = "executing"
    /\ e_pc = "join_err"
    /\ stderr_task.st = "done"
    /\ e_result' = IF output_too_large(stdout_task.buf, stderr_task.buf)
                   THEN ExecErr("OutputTooLarge", MAX_OUTPUT_SIZE, <<>>)
                   ELSE ExecOk(child.code)
    /\ e_pc' = "returned"
    /\ UNCHANGED <<hVars, left, child, pipes, stdout_task, stderr_task,
                   cmdVars, opVars>>

\* stdout.read_to_end(&mut buffer): a chunk, or end of file once the child
\* is gone and the pipe is empty
DrainStdout ==
    /\ stdout_task.st = "running"
    /\ IF pipes.out > 0
       THEN /\ pipes' = [pipes EXCEPT !.out = @ - 1]
            /\ stdout_task' = [stdout_task EXCEPT !.buf = @ + 1]
       ELSE /\ ChildGone(child)
            /\ stdout_task' = [stdout_task EXCEPT !.st = "done"]
            /\ UNCHANGED pipes
    /\ UNCHANGED <<hVars, e_pc, left, child, stderr_task, e_result, cmdVars, opVars>>

\* stderr.read_to_end(&mut buffer)
DrainStderr ==
    /\ stderr_task.st = "running"
    /\ IF pipes.err > 0
       THEN /\ pipes' = [pipes EXCEPT !.err = @ - 1]
            /\ stderr_task' = [stderr_task EXCEPT !.buf = @ + 1]
       ELSE /\ ChildGone(child)
            /\ stderr_task' = [stderr_task EXCEPT !.st = "done"]
            /\ UNCHANGED pipes
    /\ UNCHANGED <<hVars, e_pc, left, child, stdout_task, e_result, cmdVars, opVars>>

\* the system calls of the child
ChildCalls == {"want_in", "want_out", "want_err", "hung", "close_in", "exit0", "exit1"}

\* the child picks its next call; after MaxChildOps calls it exits
ChildChoose ==
    /\ child.pc = "run"
    /\ \E next \in ChildCalls :
        /\ child.ops = 0 => next \in {"exit0", "exit1"}
        /\ next \in {"want_in", "close_in"} => child.stdin_open
        /\ child' =
            CASE next = "exit0" -> [child EXCEPT !.pc = "exited", !.code = 0]
              [] next = "exit1" -> [child EXCEPT !.pc = "exited", !.code = 1]
              [] next = "close_in" ->
                    [child EXCEPT !.stdin_open = FALSE, !.ops = @ - 1]
              [] OTHER -> [child EXCEPT !.pc = next, !.ops = @ - 1]
    /\ UNCHANGED <<hVars, e_pc, left, pipes, stdout_task, stderr_task, e_result,
                   cmdVars, opVars>>

\* read(0): a chunk, or end of file once execute has closed stdin
ChildRead ==
    /\ child.pc = "want_in"
    /\ IF pipes.stdin > 0
       THEN pipes' = [pipes EXCEPT !.stdin = @ - 1]
       ELSE /\ ~pipes.stdin_wr
            /\ UNCHANGED pipes
    /\ child' = [child EXCEPT !.pc = "run"]
    /\ UNCHANGED <<hVars, e_pc, left, stdout_task, stderr_task, e_result,
                   cmdVars, opVars>>

\* write(1): blocks while the stdout pipe is full
ChildWriteOut ==
    /\ child.pc = "want_out"
    /\ pipes.out < PipeCap
    /\ pipes' = [pipes EXCEPT !.out = @ + 1]
    /\ child' = [child EXCEPT !.pc = "run"]
    /\ UNCHANGED <<hVars, e_pc, left, stdout_task, stderr_task, e_result,
                   cmdVars, opVars>>

\* write(2): blocks while the stderr pipe is full
ChildWriteErr ==
    /\ child.pc = "want_err"
    /\ pipes.err < PipeCap
    /\ pipes' = [pipes EXCEPT !.err = @ + 1]
    /\ child' = [child EXCEPT !.pc = "run"]
    /\ UNCHANGED <<hVars, e_pc, left, stdout_task, stderr_task, e_result,
                   cmdVars, opVars>>

\* the points execute can be suspended at
AwaitPoints ==
    {"write_stdin", "select", "join_out", "join_err",
     "timeout_join_out", "timeout_join_err"}

\* the request's future is dropped while execute is suspended: the Child
\* handle and the ExecutionContext are dropped, the spawned tasks are not
Cancel ==
    /\ h_pc = "executing"
    /\ e_pc \in AwaitPoints
    /\ cancel_at' = e_pc
    /\ child' = drop_child(child)
    /\ pipes' = [pipes EXCEPT !.stdin_wr = FALSE]
    /\ ctx' = drop_ctx(ctx)
    /\ h_pc' = "cancelled"
    /\ e_pc' = "dropped"
    /\ UNCHANGED <<operation, n_inv, h_result, response,
                   left, stdout_task, stderr_task, e_result, cmdVars, opVars>>

HandlerSteps ==
    \/ HandlerCreateCtx
    \/ HandlerDispatch
    \/ ProviderValidationFails
    \/ ProviderSucceeds
    \/ ProviderResumes
    \/ HandlerBuildResponse
    \/ HandlerReturn
    \/ ExecSpawn

ExecuteSteps ==
    \/ ExecWriteStdin
    \/ ExecWaitExit
    \/ ExecTimeout
    \/ ExecTimeoutJoinOut
    \/ ExecTimeoutJoinErr
    \/ ExecJoinOut
    \/ ExecJoinErr

ChildSteps ==
    \/ ChildChoose
    \/ ChildRead
    \/ ChildWriteOut
    \/ ChildWriteErr

NextExec ==
    \/ HandlerSteps
    \/ ExecuteSteps
    \/ DrainStdout
    \/ DrainStderr
    \/ ChildSteps
    \/ Cancel

SpecExec == InitExec /\ [][NextExec]_vars

\* the runtime schedules the request's task and the drain tasks, the kernel
\* schedules the child; nothing obliges the caller to cancel
SpecExecFair ==
    /\ SpecExec
    /\ WF_vars(HandlerSteps)
    /\ WF_vars(ExecuteSteps)
    /\ WF_vars(DrainStdout)
    /\ WF_vars(DrainStderr)
    /\ WF_vars(ChildSteps)

(***************************************************************************)
(* Properties of execute_handler and OpenSSLCommand::execute               *)
(***************************************************************************)

\* C5: execute never deadlocks on the pipes: whatever the child does with
\* its stdin, stdout and stderr, and whatever payload of at most
\* MAX_INPUT_SIZE bytes is attached, a call of execute that is not cancelled
\* returns (a result, or an error such as Timeout).  Stated here for the
\* children that never sleep for ever, which the claim covers: such a child
\* always goes on as soon as its pipe lets it.
C5_ExecuteReturns ==
    (h_pc = "executing") ~> (h_pc # "executing" \/ child.pc = "hung")

\* execute has just returned Err(Timeout(_))
TimeoutReturned == e_pc = "returned" /\ e_result.variant = "Timeout"

\* C6, as stated: when execute returns Timeout the child has been killed and
\* waited for, both drain tasks have been awaited, the isolated directory has
\* been deleted, and the error carries the context's timeout_ms.
C6_TimeoutAfterDirectoryDeleted ==
    TimeoutReturned =>
        /\ ~ChildRunning(child)
        /\ stdout_task.st = "done"
        /\ stderr_task.st = "done"
        /\ e_result.ms = ctx.timeout_ms
        /\ ctx.dir = "removed"

\* C6, amended: when execute returns Timeout the child has been killed and
\* waited for, both drain tasks have been awaited and the error carries the
\* context's timeout_ms; the isolated directory still exists at that moment
\* and is removed when the handler returns its Timeout response.
C6_TimeoutAfterKillAndJoin ==
    /\ TimeoutReturned =>
        /\ ~ChildRunning(child)
        /\ stdout_task.st = "done"
        /\ stderr_task.st = "done"
        /\ e_result.ms = ctx.timeout_ms
        /\ e_result.ms = handler_timeout(operation)
        /\ ctx.dir = "exists"
    /\ (h_pc = "responded" /\ response.code = "Timeout") =>
        /\ ctx.dir = "removed"
        /\ response.ms = ctx.timeout_ms

C6_Witness ==
    /\ TimeoutReturned
    /\ operation = "rsa_keygen"
    /\ child.pc = "killed"
    /\ stdout_task.buf > 0

\* C7: once execute_handler has returned its response, on whichever exit
\* path, the request's temporary directory does not exist and no child
\* process of the request is running.
C7_ContextDestroyedAtResponse ==
    h_pc = "responded" =>
        /\ ctx.dir # "exists"
        /\ ~ChildRunning(child)

\* the exit path on which the child was still running when execute gave up:
\* the stdin write failed because the child had closed its stdin
C7_Witness ==
    /\ h_pc = "responded"
    /\ response.code = "InternalError"
    /\ child.pc = "killed"
    /\ ctx.dir = "removed"

\* nothing of a cancelled request is left
CancelledClean ==
    /\ ~ChildRunning(child)
    /\ stdout_task.st # "running"
    /\ stderr_task.st # "running"
    /\ ctx.dir # "exists"

\* C8: after a request is cancelled while execute is suspended, eventually
\* and from then on the child is not running, no drain task is running and
\* the temporary directory is removed.
C8_CancelCleansUp == (h_pc = "cancelled") ~> [](CancelledClean)

\* cancelled during the wait-for-exit with output still to drain
C8_Witness ==
    /\ h_pc = "cancelled"
    /\ cancel_at = "select"
    /\ child.pc = "killed"
    /\ stdout_task.st = "running"
    /\ pipes.out > 0
    /\ ctx.dir = "removed"

\* C12: when execute returns after a normal completion, it returns an
\* ExecutionResult exactly when neither captured stream is longer than
\* MAX_OUTPUT_SIZE bytes (a stream of exactly that length is returned), and
\* OutputTooLarge(MAX_OUTPUT_SIZE) otherwise.
C12_OutputCapped ==
    (e_pc = "returned" /\ e_result.variant \in {"Ok", "OutputTooLarge"}) =>
        LET over == \/ stdout_task.buf * ChunkBytes > MAX_OUTPUT_SIZE
                    \/ stderr_task.buf * ChunkBytes > MAX_OUTPUT_SIZE
        IN  /\ e_result.ok <=> ~over
            /\ ~e_result.ok => e_result.ms = MAX_OUTPUT_SIZE

\* a captured stdout of exactly MAX_OUTPUT_SIZE bytes is returned
C12_Witness ==
    /\ e_pc = "returned"
    /\ e_result.ok
    /\ stdout_task.buf * ChunkBytes = MAX_OUTPUT_SIZE

\* C18: a failure caused by a validator rejection is reported with the error
\* code ValidationFailed, and a failure caused by the external tool (a
\* nonzero exit, whatever its stderr text) is not.
C18_ValidationFailedCode ==
    (h_pc = "responded" /\ h_result.variant = "ExecutionFailed") =>
        /\ h_result.msg \in ValidationTexts => response.code = "ValidationFailed"
        /\ h_result.msg \in StderrTexts => response.code # "ValidationFailed"

(***************************************************************************)
(* validators.rs: algorithm-name validation                                *)
(***************************************************************************)

ALLOWED_PQC_SIG_ALGOS ==
    {"mldsa44", "mldsa65", "mldsa87", "falcon512", "falcon1024",
     "falconpadded512", "falconpadded1024",
     "dilithium2", "dilithium3", "dilithium5", "falcon-512", "falcon-1024"}

ALLOWED_PQC_KEM_ALGOS ==
    {"mlkem512", "mlkem768", "mlkem1024", "kyber512", "kyber768", "kyber1024"}

UnsupportedAlgorithm == [ok |-> FALSE, v |-> "", err |-> "UnsupportedAlgorithm"]

\* a validator that returns the allowlisted name it was given
validate_pqc_sig_algo_no_alias(algo) ==
    IF to_lowercase(algo) \in ALLOWED_PQC_SIG_ALGOS
    THEN [ok |-> TRUE, v |-> to_lowercase(algo), err |-> "none"]
    ELSE UnsupportedAlgorithm

validate_pqc_sig_algo(algo) ==
    LET algo_lower == to_lowercase(algo)
    IN  IF algo_lower \in ALLOWED_PQC_SIG_ALGOS
        THEN CASE algo_lower \in {"mldsa44", "dilithium2"} ->
                    [ok |-> TRUE, v |-> "mldsa44", err |-> "none"]
               [] algo_lower \in {"mldsa65", "dilithium3"} ->
                    [ok |-> TRUE, v |-> "mldsa65", err |-> "none"]
               [] algo_lower \in {"mldsa87", "dilithium5"} ->
                    [ok |-> TRUE, v |-> "mldsa87", err |-> "none"]
               [] algo_lower \in {"falcon512", "falcon-512"} ->
                    [ok |-> TRUE, v |-> "falcon512", err |-> "none"]
               [] algo_lower \in {"falcon1024", "falcon-1024"} ->
                    [ok |-> TRUE, v |-> "falcon1024", err |-> "none"]
               [] algo_lower = "falconpadded512" ->
                    [ok |-> TRUE, v |-> "falconpadded512", err |-> "none"]
               [] algo_lower = "falconpadded1024" ->
                    [ok |-> TRUE, v |-> "falconpadded1024", err |-> "none"]
               [] OTHER -> UnsupportedAlgorithm
        ELSE UnsupportedAlgorithm

validate_pqc_kem_algo(algo) ==
    LET algo_lower == to_lowercase(algo)
    IN  IF algo_lower \in ALLOWED_PQC_KEM_ALGOS
        THEN CASE algo_lower \in {"mlkem512", "kyber512"} ->
                    [ok |-> TRUE, v |-> "mlkem512", err |-> "none"]
               [] algo_lower \in {"mlkem768", "kyber768"} ->
                    [ok |-> TRUE, v |-> "mlkem768", err |-> "none"]
               [] algo_lower \in {"mlkem1024", "kyber1024"} ->
                    [ok |-> TRUE, v |-> "mlkem1024", err |-> "none"]
               [] OTHER -> UnsupportedAlgorithm
        ELSE UnsupportedAlgorithm

\* the four validators, by the kind of name they check
AlgoKinds == {"hash", "cipher", "pqc_sig", "pqc_kem"}

validate_algo(kind, name) ==
    CASE kind = "hash" -> validate_hash_algo(name)
      [] kind = "cipher" -> validate_cipher(name)
      [] kind = "pqc_sig" -> validate_pqc_sig_algo(name)
      [] kind = "pqc_kem" -> validate_pqc_kem_algo(name)

allowlist(kind) ==
    CASE kind = "hash" -> ALLOWED_HASH_ALGOS
      [] kind = "cipher" -> ALLOWED_SYMMETRIC_CIPHERS
      [] kind = "pqc_sig" -> ALLOWED_PQC_SIG_ALGOS
      [] kind = "pqc_kem" -> ALLOWED_PQC_KEM_ALGOS

\* the names drawn with capitals, each with its lower-case spelling
CaseVariants ==
    { <<"AES-128-CBC", "aes-128-cbc">>, <<"SHA256", "sha256">>,
      <<"SHA3-512", "sha3-512">>, <<"Md5", "md5">>, <<"SHA1", "sha1">>,
      <<"ChaCha20", "chacha20">>, <<"DES-EDE3-CBC", "des-ede3-cbc">>,
      <<"AES-256-GCM", "aes-256-gcm">>, <<"MLDSA44", "mldsa44">>,
      <<"MlDsa65", "mldsa65">>, <<"Dilithium2", "dilithium2">>,
      <<"DILITHIUM5", "dilithium5">>, <<"FALCON-512", "falcon-512">>,
      <<"Falcon-1024", "falcon-1024">>, <<"FalconPadded512", "falconpadded512">>,
      <<"Dilithium4", "dilithium4">>, <<"MLKEM1024", "mlkem1024">>,
      <<"Kyber768", "kyber768">>, <<"KYBER512", "kyber512">>,
      <<"Kyber", "kyber">> }

\* names no allowlist holds
UnknownAlgoNames ==
    {"", "sha1", "sha-256", "aes-256-gcm", "dilithium4", "falcon_512", "kyber",
     "mlkem-512", "rsa"}

AlgoNames ==
    ALLOWED_HASH_ALGOS \cup ALLOWED_SYMMETRIC_CIPHERS \cup ALLOWED_PQC_SIG_ALGOS
    \cup ALLOWED_PQC_KEM_ALGOS \cup UnknownAlgoNames
    \cup {p[1] : p \in CaseVariants}

AlgoRequests ==
    { [op |-> "validate_algo", kind |-> k, name |-> n] :
        k \in AlgoKinds, n \in AlgoNames }

InitAlgo ==
    /\ pc = "start"
    /\ req \in AlgoRequests
    /\ invs = <<>>
    /\ files = <<>>
    /\ result = UnsupportedAlgorithm
    /\ loc = <<>>
    /\ phase = "single"
    /\ base = 0
    /\ orig = req
    /\ IdleCmd
    /\ IdleExec

\* a provider validates the name the caller gave
ValidateAlgo ==
    /\ pc = "start"
    /\ result' = validate_algo(req.kind, req.name)
    /\ pc' = "validated"
    /\ UNCHANGED <<req, invs, files, loc, phase, base, orig, cmdVars, exVars>>

\* the canonical name is validated again
ValidateAlgoAgain ==
    /\ pc = "validated"
    /\ result.ok
    /\ req' = [req EXCEPT !.name = result.v]
    /\ result' = validate_algo(req.kind, result.v)
    /\ pc' = "revalidated"
    /\ UNCHANGED <<invs, files, loc, phase, base, orig, cmdVars, exVars>>

NextAlgo == ValidateAlgo \/ ValidateAlgoAgain

SpecAlgo == InitAlgo /\ [][NextAlgo]_vars

\* the legacy aliases and their modern equivalents
LegacyAliases ==
    { <<"pqc_sig", "dilithium2", "mldsa44">>, <<"pqc_sig", "dilithium3", "mldsa65">>,
      <<"pqc_sig", "dilithium5", "mldsa87">>, <<"pqc_sig", "falcon-512", "falcon512">>,
      <<"pqc_sig", "falcon-1024", "falcon1024">>,
      <<"pqc_kem", "kyber512", "mlkem512">>, <<"pqc_kem", "kyber768", "mlkem768">>,
      <<"pqc_kem", "kyber1024", "mlkem1024">> }

\* the lower-case spelling of a drawn name
Lowered(name) ==
    IF \E p \in CaseVariants : p[1] = name
    THEN (CHOOSE p \in CaseVariants : p[1] = name)[2]
    ELSE name

\* C20: algorithm-name validation is a case-insensitive allowlist lookup:
\* a name is accepted exactly when its lower-case spelling is allowlisted and
\* is rejected with UnsupportedAlgorithm otherwise; a name and its lower-case
\* spelling get the same result; a legacy alias gets the canonical name of
\* its modern equivalent; and every result is an allowlisted name that
\* validates to itself.
C20_AlgoValidation ==
    /\ pc = "validated" =>
        /\ result.ok <=> Lowered(req.name) \in allowlist(req.kind)
        /\ ~result.ok => result.err = "UnsupportedAlgorithm"
        /\ result = validate_algo(req.kind, Lowered(req.name))
        /\ result.ok => result.v \in allowlist(req.kind)
        /\ \A a \in LegacyAliases :
            (a[1] = req.kind /\ a[2] = Lowered(req.name)) =>
                /\ result.ok
                /\ result.v = a[3]
                /\ result = validate_algo(a[1], a[3])
    /\ pc = "revalidated" =>
        /\ result.ok
        /\ result.v = req.name

\* a legacy alias written with capitals was resolved and validated again
C20_Witness ==
    /\ pc = "revalidated"
    /\ orig.name = "Dilithium2"
    /\ req.name = "mldsa44"
    /\ result.ok

(***************************************************************************)
(* routes.rs / providers/asymmetric.rs / providers/pqc.rs: rsa_keygen,     *)
(* rsa_encrypt, rsa_verify, pqc_sig_verify                                 *)
(*                                                                         *)
(* A u64 is its four 16-bit limbs, least significant first; a u32 is its   *)
(* two.  `files` is the sequence of temp files written, in order.          *)
(***************************************************************************)

\* a JSON value of the request's params: absent, or a string, a negative
\* number, or a number that fits a u64
JsonAbsent == [kind |-> "absent", limbs |-> <<0, 0, 0, 0>>]
JsonString == [kind |-> "string", limbs |-> <<0, 0, 0, 0>>]
JsonNegative == [kind |-> "negative", limbs |-> <<2048, 0, 0, 0>>]
JsonU64(limbs) == [kind |-> "u64", limbs |-> limbs]

\* params.get(key).and_then(|v| v.as_u64()).ok_or_else(...)
get_param_u64(value) ==
    IF value.kind = "u64" THEN Ok(value.limbs) ELSE Err("Missing or invalid parameter")

\* a conversion that keeps the value when it fits a u32 and fails otherwise
try_into_u32(limbs) ==
    IF limbs[3] = 0 /\ limbs[4] = 0 THEN <<limbs[1], limbs[2]>> ELSE <<0, 0>>

\* `as u32`: the low 32 bits
as_u32(limbs) == <<limbs[1], limbs[2]>>

ALLOWED_RSA_BITS == {<<2048, 0>>, <<3072, 0>>, <<4096, 0>>}

validate_rsa_bits(bits) ==
    IF bits \in ALLOWED_RSA_BITS THEN Ok(bits) ELSE Err("UnsupportedKeySize")

\* the value of an RsaKeygenResult / RsaEncryptResult / RsaVerifyResult /
\* PqcSigVerifyResult
AsymVal ==
    [valid |-> FALSE, bits |-> <<0, 0>>, algorithm |-> "", private_key_pem |-> "",
     public_key_pem |-> ""]

\* a temp-file path as an argument
PathArg(name) == Arg("", name, <<>>, "path", "none", FALSE)

\* openssl genpkey -algorithm RSA -pkeyopt rsa_keygen_bits:<bits> -out private.pem
genpkey_command(bits) ==
    Invocation("genpkey",
        <<A("genpkey"), A("-algorithm"), A("RSA"), A("-pkeyopt"),
          Arg("rsa_keygen_bits:", "", to_string(bits[1]), "caller", "validate_rsa_bits", FALSE),
          A("-out"), PathArg("private.pem")>>,
        NoData)

\* mutant: the public key is derived from another file of the context
pkey_pubout_command_other_file ==
    Invocation("pkey-pubout",
        <<A("pkey"), A("-pubout"), A("-in"), PathArg("public.pem")>>, NoData)

\* openssl pkey -pubout -in private.pem
pkey_pubout_command ==
    Invocation("pkey-pubout",
        <<A("pkey"), A("-pubout"), A("-in"), PathArg("private.pem")>>, NoData)

\* execute_rsa_keygen and rsa_keygen up to the first invocation
RsaKeygenCall ==
    /\ pc = "start"
    /\ req.op = "rsa_keygen"
    /\ LET param == get_param_u64(req.bits)
       IN  IF ~param.ok
           THEN Finish(Failure("ExecutionFailed", param.err), invs, files)
           ELSE LET validated == validate_rsa_bits(as_u32(param.v))
                IN  IF ~validated.ok
                    THEN Finish(ValidationFailure(validated.err), invs, files)
                    ELSE Suspend("keygen_exec",
                                 Append(invs, genpkey_command(validated.v)),
                                 files, [loc EXCEPT !.bits = validated.v])

\* rsa_keygen after genpkey: the exit check, the read of private.pem, and
\* the public-key derivation
RsaKeygenGenReturn ==
    /\ pc = "keygen_exec"
    /\ \E st \in Statuses, readable \in BOOLEAN :
        IF st # "exit0"
        THEN Finish(ExecFailure(st), Completed(st, <<>>, NoData), files)
        ELSE IF ~readable
        THEN Finish(Failure("IoError", "io"), Completed(st, <<>>, NoData), files)
        ELSE Suspend("pubkey_exec",
                     Append(Completed(st, <<>>, NoData), pkey_pubout_command),
                     files, [loc EXCEPT !.private_key_pem = "private.pem of genpkey"])

\* rsa_keygen after pkey -pubout
RsaKeygenPubReturn ==
    /\ pc = "pubkey_exec"
    /\ \E st \in Statuses :
        IF st # "exit0"
        THEN Finish(ExecFailure(st), Completed(st, <<>>, NoData), files)
        ELSE Finish(Success([AsymVal EXCEPT !.bits = loc.bits,
                                            !.private_key_pem = loc.private_key_pem,
                                            !.public_key_pem = "stdout of pkey -pubout"]),
                    Completed(st, <<>>, NoData), files)

\* the bit sizes drawn: the allowed ones, other small ones, and values of
\* more than 16 and more than 32 bits
BitsInputs ==
    { JsonAbsent, JsonString, JsonNegative } \cup
    { JsonU64(l) : l \in
        { <<2048, 0, 0, 0>>, <<3072, 0, 0, 0>>, <<4096, 0, 0, 0>>,
          <<0, 0, 0, 0>>, <<1024, 0, 0, 0>>, <<2047, 0, 0, 0>>, <<8192, 0, 0, 0>>,
          <<2048, 1, 0, 0>>, <<0, 1, 0, 0>>,
          <<2048, 0, 1, 0>>, <<1024, 0, 1, 0>>, <<4096, 0, 0, 1>>,
          <<3072, 0, 65535, 65535>> } }

RsaKeygenRequests == { [op |-> "rsa_keygen", bits |-> b] : b \in BitsInputs }

\* index of the first occurrence of t in s, 0 when there is none (str::find)
Find(s, t) ==
    IF Contains(s, t)
    THEN CHOOSE i \in 1..Len(s) :
            /\ SubSeq(s, i, i + Len(t) - 1) = t
            /\ \A j \in 1..(i - 1) : SubSeq(s, j, j + Len(t) - 1) # t
    ELSE 0

RECURSIVE DecimalValue(_)
DecimalValue(s) ==
    IF s = <<>> THEN 0 ELSE 10 * DecimalValue(SubSeq(s, 1, Len(s) - 1)) + HexVal(s[Len(s)])

\* str::parse::<usize>, for texts short enough not to overflow
parse_usize(s) ==
    IF s # <<>> /\ \A k \in 1..Len(s) : HexVal(s[k]) \in 0..9
    THEN Ok(DecimalValue(s))
    ELSE Err("ParseIntError")

OAEP_HASH_BYTES == 32

RECURSIVE key_bits_from_lines(_)
\* the loop over output.lines() of rsa_key_bits_from_pubkey; the lines
\* drawn have any "(" before " bit"
key_bits_from_lines(lines) ==
    IF lines = <<>> THEN Err("Unable to parse RSA key size")
    ELSE LET line == Head(lines)
             start == Find(line, <<"(">>)
             end == Find(line, <<" ", "b", "i", "t">>)
             bits == IF start > 0 /\ end > 0
                     THEN parse_usize(Trim(SubSeq(line, start + 1, end - 1)))
                     ELSE Err("none")
         IN  IF bits.ok THEN bits ELSE key_bits_from_lines(Tail(lines))

\* key_bytes.saturating_sub(2 * OAEP_HASH_BYTES + 2)
saturating_sub(a, b) == IF a > b THEN a - b ELSE 0

\* a maximum that leaves out the two bytes of OAEP framing
max_oaep_plaintext_hash_only(key_bits) ==
    saturating_sub(key_bits \div 8, 2 * OAEP_HASH_BYTES)

max_oaep_plaintext(key_bits) ==
    saturating_sub(key_bits \div 8, 2 * OAEP_HASH_BYTES + 2)

\* validate_pem on a key text that has, or has not, the PEM framing
validate_pem(pem) == IF pem = "pem" THEN Ok(pem) ELSE Err("InvalidPem")

\* BASE64.decode of the signature
decode_signature(signature) ==
    IF signature = "base64" THEN Ok(signature) ELSE Err("Invalid base64 signature")

\* openssl pkey -pubin -in public.pem -text -noout
pkey_text_command ==
    Invocation("pkey-text",
        <<A("pkey"), A("-pubin"), A("-in"), PathArg("public.pem"), A("-text"), A("-noout")>>,
        NoData)

\* openssl pkeyutl -encrypt -pubin -inkey public.pem -pkeyopt ... -in .. -out ..
pkeyutl_encrypt_command ==
    Invocation("pkeyutl-encrypt",
        <<A("pkeyutl"), A("-encrypt"), A("-pubin"), A("-inkey"), PathArg("public.pem"),
          A("-pkeyopt"), A("rsa_padding_mode:oaep"), A("-pkeyopt"), A("rsa_oaep_md:sha256"),
          A("-in"), PathArg("plaintext.bin"), A("-out"), PathArg("ciphertext.bin")>>,
        NoData)

\* the write_temp_file calls in order: the first that fails ends the
\* operation with the files written before it
WriteThen(names, label, invocation) ==
    \E k \in 0..Len(names) :
        IF k < Len(names)
        THEN Finish(Failure("IoError", "io"), invs, SubSeq(names, 1, k))
        ELSE Suspend(label, Append(invs, invocation), names, loc)

\* execute_rsa_encrypt and rsa_encrypt up to the key-size invocation
RsaEncryptCall ==
    /\ pc = "start"
    /\ req.op = "rsa_encrypt"
    /\ LET pem == validate_pem(req.public_key)
       IN  IF ~pem.ok THEN Finish(ValidationFailure(pem.err), invs, files)
           ELSE WriteThen(<<"plaintext.bin", "public.pem">>, "key_bits_exec",
                          pkey_text_command)

\* one line of openssl's description of a public key
KeyLine(key_bits) ==
    <<"P", "u", "b", "l", "i", "c", "-", "K", "e", "y", ":", " ", "(">>
        \o to_string(key_bits) \o <<" ", "b", "i", "t", ")">>

ModulusLine == <<"M", "o", "d", "u", "l", "u", "s", ":">>

\* the modulus sizes the key-size invocation reports
KeyBitsChoices == {512, 528, 535, 536, 544, 1024, 2048}

KeyTextOutputs ==
    { <<KeyLine(kb)>> : kb \in KeyBitsChoices } \cup
    { <<ModulusLine, KeyLine(1024)>>, <<ModulusLine>>, <<>> }

\* rsa_encrypt from the return of the key-size invocation to the encrypt
\* invocation
RsaEncryptKeyBitsReturn ==
    /\ pc = "key_bits_exec"
    /\ \E st \in Statuses, out \in KeyTextOutputs :
        LET done == Completed(st, out, NoData)
            key_bits == key_bits_from_lines(out)
            max_plaintext == max_oaep_plaintext(key_bits.v)
        IN  IF st # "exit0" THEN Finish(ExecFailure(st), done, files)
            ELSE IF ~key_bits.ok
            THEN Finish(Failure("ExecutionFailed", key_bits.err), done, files)
            ELSE IF max_plaintext = 0
            THEN Finish(Failure("ExecutionFailed", "RSA key size too small"), done, files)
            ELSE IF ~validate_size(req.len, max_plaintext).ok
            THEN Finish(ValidationFailure("SizeLimitExceeded"), done, files)
            ELSE Suspend("encrypt_exec", Append(done, pkeyutl_encrypt_command), files, loc)

\* rsa_encrypt after the encrypt invocation
RsaEncryptReturn ==
    /\ pc = "encrypt_exec"
    /\ \E st \in Statuses, readable \in BOOLEAN :
        LET done == Completed(st, <<>>, NoData)
        IN  IF st # "exit0" THEN Finish(ExecFailure(st), done, files)
            ELSE IF ~readable THEN Finish(Failure("IoError", "io"), done, files)
            ELSE Finish(Success(AsymVal), done, Append(files, "ciphertext.bin"))

\* plaintext lengths around each maximum and around MAX_INPUT_SIZE
PlaintextLens == {0, 1, 2, 3, 62, 63, 190, 191, MAX_INPUT_SIZE, MAX_INPUT_SIZE + 1}

RsaEncryptRequests ==
    { [op |-> "rsa_encrypt", len |-> n, public_key |-> k] :
        n \in PlaintextLens, k \in {"pem", "text"} }

\* openssl dgst -<hash> -verify public.pem -signature signature.bin data.bin
dgst_verify_command(hash) ==
    Invocation("dgst-verify",
        <<A("dgst"), Arg("-", hash, <<>>, "caller", "validate_hash_algo", FALSE),
          A("-verify"), PathArg("public.pem"),
          A("-signature"), PathArg("signature.bin"), PathArg("data.bin")>>,
        NoData)

\* mutant: the command is passed on without the provider arguments
with_pqc_provider_absent(cmd) == cmd

\* pqc.rs: with_pqc_provider appends the provider arguments to what the
\* command holds so far
with_pqc_provider(cmd) ==
    cmd \o <<A("-provider"), A("oqsprovider"), A("-provider"), A("default")>>

\* pqc_sig_sign, pqc_sig_verify: the algorithm, validated when one was given
pqc_algo(algorithm) ==
    IF algorithm = "absent" THEN Ok("unknown") ELSE validate_pqc_sig_algo(algorithm)

\* openssl pkeyutl -provider oqsprovider -provider default -verify ...
pqc_verify_command ==
    Invocation("pkeyutl-verify",
        with_pqc_provider(<<A("pkeyutl")>>) \o
        <<A("-verify"), A("-pubin"), A("-inkey"), PathArg("pqc_public.pem"),
          A("-sigfile"), PathArg("pqc_signature.bin"), A("-rawin"),
          A("-in"), PathArg("data.bin")>>,
        NoData)

VerifiedOK == <<"V", "e", "r", "i", "f", "i", "e", "d", " ", "O", "K">>

\* what the verify invocation prints
VerifyOutputs ==
    { VerifiedOK \o <<"\n">>,
      <<"V", "e", "r", "i", "f", "i", "c", "a", "t", "i", "o", "n", " ",
        "f", "a", "i", "l", "u", "r", "e", "\n">>,
      <<"V", "e", "r", "i", "f", "i", "e", "d">>,
      <<>> }

\* a validity read from the exit status alone
rsa_verify_valid_by_exit(status, stdout) == status = "exit0"

\* result.exit_code == 0 && stdout.contains("Verified OK")
rsa_verify_valid(status, stdout) == status = "exit0" /\ Contains(stdout, VerifiedOK)

\* result.exit_code == 0
pqc_verify_valid(status, stdout) == status = "exit0"

\* execute_rsa_verify and rsa_verify up to the verify invocation
RsaVerifyCall ==
    /\ pc = "start"
    /\ req.op = "rsa_verify"
    /\ LET size == validate_size(req.len, MAX_INPUT_SIZE)
           pem == validate_pem(req.public_key)
           algo == validate_hash_algo(IF req.algo = "absent" THEN "sha256" ELSE req.algo)
           signature == decode_signature(req.signature)
       IN  IF ~size.ok THEN Finish(ValidationFailure(size.err), invs, files)
           ELSE IF ~pem.ok THEN Finish(ValidationFailure(pem.err), invs, files)
           ELSE IF ~algo.ok THEN Finish(ValidationFailure(algo.err), invs, files)
           ELSE IF ~signature.ok
           THEN Finish(Failure("ExecutionFailed", signature.err), invs, files)
           ELSE WriteThen(<<"data.bin", "public.pem", "signature.bin">>, "verify_exec",
                          dgst_verify_command(algo.v))

\* rsa_verify after the verify invocation
RsaVerifyReturn ==
    /\ pc = "verify_exec"
    /\ req.op = "rsa_verify"
    /\ \E st \in Statuses, out \in VerifyOutputs :
        LET done == Completed(st, out, NoData)
        IN  IF st \notin {"exit0", "nonzero"} THEN Finish(ExecFailure(st), done, files)
            ELSE Finish(Success([AsymVal EXCEPT !.valid = rsa_verify_valid(st, out)]),
                        done, files)

\* execute_pqc_sig_verify and pqc_sig_verify up to the verify invocation
PqcSigVerifyCall ==
    /\ pc = "start"
    /\ req.op = "pqc_sig_verify"
    /\ LET size == validate_size(req.len, MAX_INPUT_SIZE)
           pem == validate_pem(req.public_key)
           algo == pqc_algo(req.algo)
           signature == decode_signature(req.signature)
       IN  IF ~size.ok THEN Finish(ValidationFailure(size.err), invs, files)
           ELSE IF ~pem.ok THEN Finish(ValidationFailure(pem.err), invs, files)
           ELSE IF ~algo.ok THEN Finish(ValidationFailure(algo.err), invs, files)
           ELSE IF ~signature.ok
           THEN Finish(Failure("ExecutionFailed", signature.err), invs, files)
           ELSE WriteThen(<<"data.bin", "pqc_public.pem", "pqc_signature.bin">>,
                          "verify_exec", pqc_verify_command)

\* pqc_sig_verify after the verify invocation
PqcSigVerifyReturn ==
    /\ pc = "verify_exec"
    /\ req.op = "pqc_sig_verify"
    /\ \E st \in Statuses, out \in VerifyOutputs :
        LET done == Completed(st, out, NoData)
        IN  IF st \notin {"exit0", "nonzero"} THEN Finish(ExecFailure(st), done, files)
            ELSE Finish(Success([AsymVal EXCEPT !.valid = pqc_verify_valid(st, out),
                                                !.algorithm = pqc_algo(req.algo).v]),
                        done, files)

VerifyLens == {0, 1, MAX_INPUT_SIZE, MAX_INPUT_SIZE + 1}

VerifyRequests ==
    { [op |-> o, len |-> n, public_key |-> k, algo |-> a, signature |-> s] :
        o \in {"rsa_verify", "pqc_sig_verify"}, n \in VerifyLens, k \in {"pem", "text"},
        a \in {"absent", "sha256", "SHA256", "crc32", "mldsa44", "FALCON-512"},
        s \in {"base64", "text"} }

AsymLoc == [bits |-> <<0, 0>>, private_key_pem |-> ""]

AsymRequests == RsaKeygenRequests \cup RsaEncryptRequests \cup VerifyRequests

InitAsym ==
    /\ pc = "start"
    /\ req \in AsymRequests
    /\ invs = <<>>
    /\ files = <<>>
    /\ result = NoRes
    /\ loc = AsymLoc
    /\ phase = "single"
    /\ base = 0
    /\ orig = req
    /\ IdleCmd
    /\ IdleExec

NextAsym ==
    \/ RsaKeygenCall
    \/ RsaKeygenGenReturn
    \/ RsaKeygenPubReturn
    \/ RsaEncryptCall
    \/ RsaEncryptKeyBitsReturn
    \/ RsaEncryptReturn
    \/ RsaVerifyCall
    \/ RsaVerifyReturn
    \/ PqcSigVerifyCall
    \/ PqcSigVerifyReturn

SpecAsym == InitAsym /\ [][NextAsym]_vars

\* an rsa_keygen request whose bit size, as the caller supplied it, is one
\* of 2048, 3072, 4096
RequestedBitsAllowed ==
    /\ req.bits.kind = "u64"
    /\ req.bits.limbs[3] = 0
    /\ req.bits.limbs[4] = 0
    /\ <<req.bits.limbs[1], req.bits.limbs[2]>> \in ALLOWED_RSA_BITS

\* C14: an rsa_keygen request issues an invocation or succeeds only if the
\* bit size the caller supplied is 2048, 3072 or 4096; for every other value,
\* those above 2^32 included, no invocation is issued.
C14_KeygenOnlyAllowedBits ==
    (req.op = "rsa_keygen" /\ ~RequestedBitsAllowed) => (invs = <<>> /\ ~result.ok)

\* C13 as stated: in rsa_encrypt a plaintext one byte longer than the
\* maximum keyBits/8 - 2*32 - 2 fails validation before any invocation is
\* issued.
C13_OversizeBeforeAnyInvocation ==
    (req.op = "rsa_encrypt" /\ pc = "done" /\ result.msg = "SizeLimitExceeded")
        => invs = <<>>

\* the modulus size the key-size invocation reported, when it reported one
KeyBitsReported ==
    /\ req.op = "rsa_encrypt"
    /\ Len(invs) >= 1
    /\ invs[1].status = "exit0"
    /\ key_bits_from_lines(invs[1].stdout).ok

\* C13: in rsa_encrypt, with keyBits the modulus size reported by the
\* key-size invocation and the maximum keyBits/8 - 2*32 - 2 at least 1, a
\* plaintext of exactly the maximum length reaches the encrypt invocation, and
\* a plaintext one byte longer fails validation after the key-size invocation
\* and before the encrypt invocation: the key-size invocation is the only one
\* issued.
C13_OaepBoundary ==
    (KeyBitsReported /\ pc \in {"encrypt_exec", "done"}) =>
        LET keyBits == key_bits_from_lines(invs[1].stdout).v
            maximum == (keyBits \div 8) - 2 * 32 - 2
        IN  /\ (maximum >= 1 /\ req.len = maximum) =>
                    /\ Len(invs) = 2
                    /\ invs[2].tool = "pkeyutl-encrypt"
            /\ (maximum >= 1 /\ req.len = maximum + 1) =>
                    /\ pc = "done"
                    /\ Len(invs) = 1
                    /\ ~result.ok
                    /\ result.msg = "SizeLimitExceeded"

C13_Witness ==
    /\ KeyBitsReported
    /\ pc = "done"
    /\ key_bits_from_lines(invs[1].stdout).v = 2048
    /\ req.len = 191
    /\ Len(invs) = 1
    /\ result.msg = "SizeLimitExceeded"

\* C15: for rsa_verify and pqc_sig_verify with valid parameters, every
\* outcome of the verify invocation other than success yields a success
\* result with valid = false, never an execution error.
C15_VerifyFailureIsNotAnError ==
    (req.op \in {"rsa_verify", "pqc_sig_verify"} /\ pc = "done" /\ Len(invs) = 1) =>
        /\ result.ok
        /\ invs[1].status # "exit0" => ~result.val.valid

\* C16: rsa_verify reports valid = true if and only if the verify invocation
\* exited with status 0 and its standard output contains "Verified OK".
C16_ValidIffExitAndMarker ==
    (req.op = "rsa_verify" /\ pc = "done" /\ result.ok) =>
        (result.val.valid <=>
            /\ invs[1].status = "exit0"
            /\ Contains(invs[1].stdout, VerifiedOK))

C16_Witness ==
    /\ req.op = "rsa_verify"
    /\ pc = "done"
    /\ result.ok
    /\ invs[1].status = "exit0"
    /\ ~Contains(invs[1].stdout, VerifiedOK)
    /\ ~result.val.valid

\* C17: an input of MAX_INPUT_SIZE + 1 bytes is rejected with
\* SizeLimitExceeded before any invocation or temp-file write, and an input of
\* exactly MAX_INPUT_SIZE bytes passes the size check (rsa_encrypt,
\* rsa_verify, pqc_sig_verify).
C17_InputLimitBeforeAnyEffect ==
    (req.op \in {"rsa_encrypt", "rsa_verify", "pqc_sig_verify"} /\ req.public_key = "pem") =>
        /\ req.len = MAX_INPUT_SIZE + 1 =>
                /\ invs = <<>>
                /\ files = <<>>
                /\ pc = "done" => (~result.ok /\ result.msg = "SizeLimitExceeded")
        /\ (req.len = MAX_INPUT_SIZE /\ pc = "done") => result.msg # "SizeLimitExceeded"

(***************************************************************************)
(* providers/encoding.rs: base64_encode, base64_decode, hex_encode,        *)
(* hex_decode                                                              *)
(*                                                                         *)
(* A text is `fill` copies of `unit` followed by `body`, with `newlines`   *)
(* line breaks among them; bytes are numbers, characters are strings.      *)
(***************************************************************************)

Filled(fill, unit, body, newlines) ==
    [fill |-> fill, unit |-> unit, body |-> body, newlines |-> newlines]

\* len() of a text
TextLen(t) == t.fill * Len(t.unit) + Len(t.body) + t.newlines

\* the filler of the long inputs: "AAA"
FillUnit == <<65, 65, 65>>

Base64Alphabet ==
    <<"A", "B", "C", "D", "E", "F", "G", "H", "I", "J", "K", "L", "M", "N", "O", "P",
      "Q", "R", "S", "T", "U", "V", "W", "X", "Y", "Z", "a", "b", "c", "d", "e", "f",
      "g", "h", "i", "j", "k", "l", "m", "n", "o", "p", "q", "r", "s", "t", "u", "v",
      "w", "x", "y", "z", "0", "1", "2", "3", "4", "5", "6", "7", "8", "9", "+", "/">>

\* position of a character in the alphabet, from 0, and -1 for any other
Base64Val(c) ==
    IF \E i \in 1..64 : Base64Alphabet[i] = c
    THEN (CHOOSE i \in 1..64 : Base64Alphabet[i] = c) - 1
    ELSE -1

RECURSIVE Base64Enc(_)
\* the base64 text of a byte sequence, with padding
Base64Enc(bytes) ==
    IF Len(bytes) = 0 THEN <<>>
    ELSE IF Len(bytes) = 1
    THEN <<Base64Alphabet[(bytes[1] \div 4) + 1],
           Base64Alphabet[((bytes[1] % 4) * 16) + 1], "=", "=">>
    ELSE IF Len(bytes) = 2
    THEN <<Base64Alphabet[(bytes[1] \div 4) + 1],
           Base64Alphabet[((bytes[1] % 4) * 16 + bytes[2] \div 16) + 1],
           Base64Alphabet[((bytes[2] % 16) * 4) + 1], "=">>
    ELSE <<Base64Alphabet[(bytes[1] \div 4) + 1],
           Base64Alphabet[((bytes[1] % 4) * 16 + bytes[2] \div 16) + 1],
           Base64Alphabet[((bytes[2] % 16) * 4 + bytes[3] \div 64) + 1],
           Base64Alphabet[(bytes[3] % 64) + 1]>>
         \o Base64Enc(SubSeq(bytes, 4, Len(bytes)))

RECURSIVE Base64Dec(_)
\* the bytes of a base64 text: the length is a multiple of 4, padding only
\* ends the last group
Base64Dec(text) ==
    IF Len(text) = 0 THEN Ok(<<>>)
    ELSE IF Len(text) < 4 THEN Err("InvalidLength")
    ELSE LET i1 == Base64Val(text[1])
             i2 == Base64Val(text[2])
             i3 == Base64Val(text[3])
             i4 == Base64Val(text[4])
             rest == Base64Dec(SubSeq(text, 5, Len(text)))
         IN  IF i1 < 0 \/ i2 < 0 THEN Err("InvalidByte")
             ELSE IF text[3] = "=" /\ text[4] = "="
             THEN IF Len(text) = 4 /\ i2 % 16 = 0
                  THEN Ok(<<i1 * 4 + i2 \div 16>>) ELSE Err("InvalidPadding")
             ELSE IF i3 < 0 THEN Err("InvalidByte")
             ELSE IF text[4] = "="
             THEN IF Len(text) = 4 /\ i3 % 4 = 0
                  THEN Ok(<<i1 * 4 + i2 \div 16, (i2 % 16) * 16 + i3 \div 4>>)
                  ELSE Err("InvalidPadding")
             ELSE IF i4 < 0 THEN Err("InvalidByte")
             ELSE IF ~rest.ok THEN rest
             ELSE Ok(<<i1 * 4 + i2 \div 16, (i2 % 16) * 16 + i3 \div 4,
                       (i3 % 4) * 64 + i4>> \o rest.v)

\* chars().filter(|c| !c.is_whitespace()).collect()
NoWhitespace(s) == SelectSeq(s, LAMBDA c : c \notin WhiteSpace)

\* BASE64_REGEX ^[A-Za-z0-9+/]*={0,2}$
BASE64_REGEX_is_match(s) ==
    \E pad \in 0..2 :
        /\ pad <= Len(s)
        /\ \A i \in 1..(Len(s) - pad) : Base64Val(s[i]) >= 0
        /\ \A i \in (Len(s) - pad + 1)..Len(s) : s[i] = "="

\* validate_base64 on a text whose filler is whole base64 groups
validate_base64(b64) ==
    LET clean == NoWhitespace(b64.body)
        unit == Base64Dec(b64.unit)
        body == Base64Dec(clean)
    IN  IF ~BASE64_REGEX_is_match(clean) \/ (b64.fill > 0 /\ ~unit.ok)
        THEN Err("InvalidBase64")
        ELSE IF ~body.ok THEN Err("InvalidBase64")
        ELSE Ok(Filled(b64.fill, unit.v, body.v, 0))

\* validate_hex on a text whose filler is whole pairs of digits
validate_hex_text(hex) ==
    IF TextLen(hex) % 2 # 0 THEN Err("InvalidHex")
    ELSE IF \/ TextLen(hex) = 0
            \/ hex.newlines > 0
            \/ hex.fill > 0 /\ ~HEX_REGEX_is_match(hex.unit)
            \/ hex.body # <<>> /\ ~HEX_REGEX_is_match(hex.body)
    THEN Err("InvalidHex")
    ELSE Ok(Filled(hex.fill, hex_decode(hex.unit).v, hex_decode(hex.body).v, 0))

\* String::from_utf8_lossy on bytes
from_utf8_lossy(t) ==
    [t EXCEPT !.unit = [i \in 1..Len(t.unit) |-> IF t.unit[i] < 128 THEN t.unit[i] ELSE 65533],
              !.body = [i \in 1..Len(t.body) |-> IF t.body[i] < 128 THEN t.body[i] ELSE 65533]]

\* what openssl base64 -e -A prints: one line
openssl_base64_e(data) ==
    Filled(data.fill, Base64Enc(data.unit), Base64Enc(data.body), 0)

\* what openssl base64 -d -A prints for a text that validate_base64 accepts
openssl_base64_d(encoded) == validate_base64(encoded).v

\* what xxd -p prints: lower-case digits, a line break after every 30 bytes
\* and at the end
xxd_p(data) ==
    Filled(data.fill, HexEnc(data.unit), HexEnc(data.body), (TextLen(data) + 29) \div 30)

\* what xxd -r -p prints for a text that validate_hex accepts
xxd_r_p(hex) == validate_hex_text(hex).v

\* .chars().filter(|c| !c.is_whitespace()).collect() on the tool's output
filter_whitespace(t) == [t EXCEPT !.body = NoWhitespace(t.body), !.newlines = 0]

\* .trim() on the tool's output
trim_output(t) ==
    [t EXCEPT !.body = IF t.fill = 0 THEN Trim(t.body) ELSE TrimEnd(t.body),
              !.newlines = 0]

EncodingVal(output) == [output |-> output]

EncodingLoc == [output |-> Filled(0, <<>>, <<>>, 0)]

\* how an encoding invocation ends: execute returns OutputTooLarge exactly
\* when the output is over the cap, and otherwise the tool exits or the
\* environment fails
EncodingStatuses(stdout) ==
    IF TextLen(stdout) > MAX_OUTPUT_SIZE THEN {"too_large"}
    ELSE {"exit0", "nonzero", "timeout", "io"}

\* one encoding provider up to its invocation
EncodingCall(at, validated, label, tool, input) ==
    /\ pc = at
    /\ IF ~validated.ok THEN Finish(ValidationFailure(validated.err), invs, files)
       ELSE Suspend(label, Append(invs, Invocation(tool, <<A(tool)>>, input)), files, loc)

\* execute_base64_encode / base64_encode
Base64EncodeCall ==
    /\ req.codec = "base64"
    /\ EncodingCall("start", validate_size(TextLen(req.data), MAX_INPUT_SIZE),
                    "base64_e_exec", "base64 -e -A", req.data)

Base64EncodeReturn ==
    /\ pc = "base64_e_exec"
    /\ LET stdout == openssl_base64_e(req.data)
       IN  \E st \in EncodingStatuses(stdout) :
            IF st # "exit0" THEN Finish(ExecFailure(st), Completed(st, <<>>, NoData), files)
            ELSE Suspend("encoded", Completed(st, <<>>, NoData), files,
                         [loc EXCEPT !.output = trim_output(stdout)])

\* execute_base64_decode / base64_decode, on the output of base64_encode
Base64DecodeCall ==
    /\ req.codec = "base64"
    /\ LET decoded_bytes == validate_base64(loc.output)
           validated == IF ~decoded_bytes.ok THEN decoded_bytes
                        ELSE validate_size(TextLen(decoded_bytes.v), MAX_INPUT_SIZE)
       IN  EncodingCall("encoded", validated, "base64_d_exec", "base64 -d -A", loc.output)

Base64DecodeReturn ==
    /\ pc = "base64_d_exec"
    /\ LET stdout == openssl_base64_d(loc.output)
       IN  \E st \in EncodingStatuses(stdout) :
            IF st # "exit0" THEN Finish(ExecFailure(st), Completed(st, <<>>, NoData), files)
            ELSE Finish(Success(EncodingVal(from_utf8_lossy(stdout))),
                        Completed(st, <<>>, NoData), files)

\* execute_hex_encode / hex_encode
HexEncodeCall ==
    /\ req.codec = "hex"
    /\ EncodingCall("start", validate_size(TextLen(req.data), MAX_INPUT_SIZE),
                    "xxd_p_exec", "xxd -p", req.data)

HexEncodeReturn ==
    /\ pc = "xxd_p_exec"
    /\ LET stdout == xxd_p(req.data)
       IN  \E st \in EncodingStatuses(stdout) :
            IF st # "exit0" THEN Finish(ExecFailure(st), Completed(st, <<>>, NoData), files)
            ELSE Suspend("encoded", Completed(st, <<>>, NoData), files,
                         [loc EXCEPT !.output = filter_whitespace(stdout)])

\* execute_hex_decode / hex_decode, on the output of hex_encode
HexDecodeCall ==
    /\ req.codec = "hex"
    /\ LET decoded_bytes == validate_hex_text(loc.output)
           validated == IF ~decoded_bytes.ok THEN decoded_bytes
                        ELSE validate_size(TextLen(decoded_bytes.v), MAX_INPUT_SIZE)
       IN  EncodingCall("encoded", validated, "xxd_r_exec", "xxd -r -p", loc.output)

HexDecodeReturn ==
    /\ pc = "xxd_r_exec"
    /\ LET stdout == xxd_r_p(loc.output)
       IN  \E st \in EncodingStatuses(stdout) :
            IF st # "exit0" THEN Finish(ExecFailure(st), Completed(st, <<>>, NoData), files)
            ELSE Finish(Success(EncodingVal(from_utf8_lossy(stdout))),
                        Completed(st, <<>>, NoData), files)

\* the bytes of the short inputs: "H", "i", space, line feed
BodyBytes == {72, 105, 32, 10}

MaxBody == 2

\* the inputs: short ones, and long ones of MAX_INPUT_SIZE - 1 to
\* MAX_INPUT_SIZE + 1 bytes and of half the maximum
EncodingInputs ==
    { Filled(k, FillUnit, b, 0) :
        k \in {0, MAX_INPUT_SIZE \div 6, MAX_INPUT_SIZE \div 3},
        b \in UNION { [1..n -> BodyBytes] : n \in 0..MaxBody } }

EncodingRequests == { [codec |-> c, data |-> d] : c \in {"base64", "hex"}, d \in EncodingInputs }

InitEnc ==
    /\ pc = "start"
    /\ req \in EncodingRequests
    /\ invs = <<>>
    /\ files = <<>>
    /\ result = NoRes
    /\ loc = EncodingLoc
    /\ phase = "single"
    /\ base = 0
    /\ orig = req
    /\ IdleCmd
    /\ IdleExec

NextEnc ==
    \/ Base64EncodeCall
    \/ Base64EncodeReturn
    \/ Base64DecodeCall
    \/ Base64DecodeReturn
    \/ HexEncodeCall
    \/ HexEncodeReturn
    \/ HexDecodeCall
    \/ HexDecodeReturn

SpecEnc == InitEnc /\ [][NextEnc]_vars

\* no invocation of the round trip was failed by the environment
NoToolFailure == \A i \in 1..Len(invs) : invs[i].status \notin {"nonzero", "timeout", "io"}

\* C19: for every input x within the size limit, the empty input and an
\* input of exactly the maximum size included, base64_decode(base64_encode(x))
\* succeeds and returns x, and hex_decode(hex_encode(x)) succeeds and returns x.
C19_RoundTrip ==
    (pc = "done" /\ TextLen(req.data) <= MAX_INPUT_SIZE /\ NoToolFailure) =>
        /\ result.ok
        /\ result.val.output = req.data

(***************************************************************************)
(* openssl.rs ExecutionContext under two concurrent requests               *)
(*                                                                         *)
(* Here pc, loc and result hold one value per request, and files is the    *)
(* temporary file system: for each directory name whether it exists and,   *)
(* for each file name, the request that wrote the file (0: no such file).  *)
(***************************************************************************)

\* the requests in flight
Handlers == {1, 2}

\* how many names TempDir::new can draw
MaxDirs == 3

DirNames == 1..MaxDirs

\* fixed file names of the providers
TempFileNames == {"plaintext.bin", "ciphertext.bin", "private.pem"}

NoFiles == [f \in TempFileNames |-> 0]

NoDir == [exists |-> FALSE, entries |-> NoFiles]

\* what a request has seen: the writer of the last file it read, and of the
\* last file it overwrote
NoAccess == [read |-> 0, overwrote |-> 0]

\* a directory taken under a fixed name, whether or not it exists
shared_dir(fs) == {1}

\* TempDir::new creates a directory under a name that does not exist
fresh_dir(fs) == { d \in DirNames : ~fs[d].exists }

InitDirs ==
    /\ pc = [r \in Handlers |-> "idle"]
    /\ loc = [r \in Handlers |-> 0]
    /\ files = [d \in DirNames |-> NoDir]
    /\ result = [r \in Handlers |-> NoAccess]
    /\ req = <<>>
    /\ invs = <<>>
    /\ phase = "off"
    /\ base = 0
    /\ orig = <<>>
    /\ IdleCmd
    /\ IdleExec

dirRest == <<req, invs, phase, base, orig, cmdVars, exVars>>

\* execute_handler: ExecutionContext::new
CtxNew(r) ==
    /\ pc[r] = "idle"
    /\ \E d \in fresh_dir(files) :
        /\ files' = [files EXCEPT ![d].exists = TRUE]
        /\ loc' = [loc EXCEPT ![r] = d]
    /\ pc' = [pc EXCEPT ![r] = "running"]
    /\ result' = [result EXCEPT ![r] = NoAccess]
    /\ UNCHANGED dirRest

\* write_temp_file, and a tool writing its -out file: tokio::fs::write to
\* temp_dir.path().join(name)
WriteTempFile(r, name) ==
    /\ pc[r] = "running"
    /\ files[loc[r]].exists
    /\ result' = [result EXCEPT ![r].overwrote = files[loc[r]].entries[name]]
    /\ files' = [files EXCEPT ![loc[r]].entries[name] = r]
    /\ UNCHANGED <<pc, loc, dirRest>>

\* read_temp_file, and a tool reading its -in file
ReadTempFile(r, name) ==
    /\ pc[r] = "running"
    /\ files[loc[r]].exists
    /\ files[loc[r]].entries[name] # 0
    /\ result' = [result EXCEPT ![r].read = files[loc[r]].entries[name]]
    /\ UNCHANGED <<pc, loc, files, dirRest>>

\* the end of execute_handler: ctx is dropped and TempDir removes the
\* directory with its files
CtxDrop(r) ==
    /\ pc[r] = "running"
    /\ files' = [files EXCEPT ![loc[r]] = NoDir]
    /\ pc' = [pc EXCEPT ![r] = "idle"]
    /\ UNCHANGED <<loc, result, dirRest>>

NextDirs ==
    \E r \in Handlers :
        \/ CtxNew(r)
        \/ \E name \in TempFileNames : WriteTempFile(r, name)
        \/ \E name \in TempFileNames : ReadTempFile(r, name)
        \/ CtxDrop(r)

SpecDirs == InitDirs /\ [][NextDirs]_vars

\* C11: two requests running concurrently own distinct ExecutionContext
\* directories, and a temp file written by one is never read or overwritten
\* by the other, under every interleaving of their steps.
C11_ExclusiveDirectory ==
    /\ \A r, s \in Handlers :
        (r # s /\ pc[r] = "running" /\ pc[s] = "running") => loc[r] # loc[s]
    /\ \A r \in Handlers :
        pc[r] = "running" =>
            /\ result[r].read \in {0, r}
            /\ result[r].overwrote \in {0, r}
            /\ files[loc[r]].exists
            /\ \A name \in TempFileNames : files[loc[r]].entries[name] \in {0, r}

C11_Witness ==
    /\ pc[1] = "running"
    /\ pc[2] = "running"
    /\ files[loc[1]].entries["plaintext.bin"] = 1
    /\ files[loc[2]].entries["plaintext.bin"] = 2
    /\ result[1].read = 1
    /\ result[2].overwrote = 2

(***************************************************************************)
(* validators.rs: validate_aes_key, validate_aes_iv as pure functions      *)
(***************************************************************************)

\* the hex values drawn: every table length, its neighbours, an odd length,
\* a character that is no hex digit, upper-case digits, the empty text
LengthHexInputs ==
    { Hx(n) : n \in {1, 8, 15, 16, 17, 24, 31, 32, 33} } \cup
    { <<>>, Rep("a", 31), Rep("g", 32), Rep("F", 48), Rep("A", 16) }

LengthCipherInputs ==
    ALLOWED_SYMMETRIC_CIPHERS \cup {"AES-256-CBC", "aes-256-gcm", "rc4", ""}

LengthRequests ==
    { [op |-> o, value |-> v, cipher |-> c] :
        o \in {"validate_aes_key", "validate_aes_iv"},
        v \in LengthHexInputs, c \in LengthCipherInputs }

InitLen ==
    /\ pc = "start"
    /\ req \in LengthRequests
    /\ invs = <<>>
    /\ files = <<>>
    /\ result = Err("none")
    /\ loc = <<>>
    /\ phase = "single"
    /\ base = 0
    /\ orig = req
    /\ IdleCmd
    /\ IdleExec

\* a call of validate_aes_key
ValidateAesKey ==
    /\ pc = "start"
    /\ req.op = "validate_aes_key"
    /\ result' = validate_aes_key(req.value, req.cipher)
    /\ pc' = "validated"
    /\ UNCHANGED <<req, invs, files, loc, phase, base, orig, cmdVars, exVars>>

\* a call of validate_aes_iv
ValidateAesIv ==
    /\ pc = "start"
    /\ req.op = "validate_aes_iv"
    /\ result' = validate_aes_iv(req.value, req.cipher)
    /\ pc' = "validated"
    /\ UNCHANGED <<req, invs, files, loc, phase, base, orig, cmdVars, exVars>>

NextLen == ValidateAesKey \/ ValidateAesIv

SpecLen == InitLen /\ [][NextLen]_vars

\* C21: validate_aes_key and validate_aes_iv succeed exactly when the cipher
\* is a canonical allowlisted name, the value is valid hex, and its decoded
\* byte length equals the per-cipher table entry (key 16/24/32/32/24, IV
\* 16/16/16/16/8); on a length mismatch the error carries the expected and
\* the actual byte length.
C21_KeyIvLength ==
    pc = "validated" =>
        LET key == req.op = "validate_aes_key"
            expected ==
                CASE req.cipher = "aes-128-cbc" -> IF key THEN 16 ELSE 16
                  [] req.cipher = "aes-192-cbc" -> IF key THEN 24 ELSE 16
                  [] req.cipher = "aes-256-cbc" -> IF key THEN 32 ELSE 16
                  [] req.cipher = "chacha20" -> IF key THEN 32 ELSE 16
                  [] req.cipher = "des-ede3-cbc" -> IF key THEN 24 ELSE 8
                  [] OTHER -> -1
            canonical == req.cipher \in ALLOWED_SYMMETRIC_CIPHERS
            hex == /\ Len(req.value) > 0
                   /\ Len(req.value) % 2 = 0
                   /\ \A i \in 1..Len(req.value) : HexVal(req.value[i]) >= 0
            actual == Len(req.value) \div 2
        IN  /\ result.ok <=> (canonical /\ hex /\ actual = expected)
            /\ result.ok => Len(result.v) = expected
            /\ (canonical /\ hex /\ actual # expected) =>
                    /\ result.err = IF key THEN "InvalidKeyLength" ELSE "InvalidIvLength"
                    /\ result.v = <<expected, actual>>

C21_Witness ==
    /\ pc = "validated"
    /\ req.op = "validate_aes_iv"
    /\ req.cipher = "des-ede3-cbc"
    /\ req.value = Hx(16)
    /\ result.err = "InvalidIvLength"
    /\ result.v = <<8, 16>>

\* the operation names the service supports
SupportedNames ==
    {"base64_encode", "base64_decode", "hex_encode", "hex_decode",
     "random_bytes", "random_hex", "random_base64", "hash", "hmac",
     "aes_keygen", "aes_encrypt", "aes_decrypt",
     "rsa_keygen", "rsa_pubkey", "rsa_sign", "rsa_verify", "rsa_encrypt", "rsa_decrypt",
     "pqc_sig_keygen", "pqc_sig_sign", "pqc_sig_verify"}

\* C22 as stated: a request whose operation name is not one of the fixed set
\* of supported names returns UnsupportedOperation, issues no invocation and
\* leaves no temporary directory behind.
C22_UnknownIsUnsupported ==
    (h_pc = "responded" /\ operation \notin SupportedNames) =>
        /\ response.code = "UnsupportedOperation"
        /\ n_inv = 0
        /\ ctx.dir # "exists"

\* C22: a request whose operation name is not one of the fixed set of
\* supported names issues no invocation and leaves no temporary directory
\* behind; it returns UnsupportedOperation when its temporary directory could
\* be created, and InternalError when it could not, the directory being
\* created before the name is looked at.
C22_UnknownOperation ==
    operation \notin SupportedNames =>
        /\ n_inv = 0
        /\ child = NoChild
        /\ h_pc = "responded" =>
            \/ ctx.dir = "removed" /\ response.code = "UnsupportedOperation"
            \/ ctx.dir = "none" /\ response.code = "InternalError"

C22_Witness ==
    /\ h_pc = "responded"
    /\ operation = "pqc_kem_keygen"
    /\ ctx.dir = "removed"
    /\ response.code = "UnsupportedOperation"
    /\ n_inv = 0

(***************************************************************************)
(* routes.rs: the parameters of a request, read by execute_hmac,           *)
(* execute_aes_encrypt, execute_aes_decrypt and execute_rsa_verify         *)
(*                                                                         *)
(* orig is the request as received: for each parameter key whether it is   *)
(* absent, null, a string or a number.  req is what the provider is called *)
(* with.                                                                   *)
(***************************************************************************)

JsonKinds == {"absent", "null", "string", "number"}

\* params.get(key).and_then(|v| v.as_str()).ok_or_else(...)
get_param_str(kind) ==
    IF kind = "string" THEN Ok(TRUE) ELSE Err("Missing or invalid parameter")

\* an optional parameter read leniently: anything but a string counts as absent
get_param_str_opt_lenient(kind) == Ok(kind = "string")

\* get_param_str_opt_strict: Ok(None) when absent, Ok(Some) for a string
get_param_str_opt_strict(kind) ==
    IF kind = "absent" THEN Ok(FALSE)
    ELSE IF kind = "string" THEN Ok(TRUE)
    ELSE Err("Invalid parameter type")

\* the parameters of each executor in the order it reads them, required or
\* optional
ParamsRead(op) ==
    CASE op = "hmac" ->
            <<<<"data", TRUE>>, <<"key", TRUE>>, <<"algorithm", FALSE>>>>
      [] op = "aes_encrypt" ->
            <<<<"plaintext", TRUE>>, <<"key", TRUE>>, <<"iv", FALSE>>,
              <<"hmac_key", TRUE>>, <<"cipher", FALSE>>>>
      [] op = "aes_decrypt" ->
            <<<<"ciphertext", TRUE>>, <<"key", TRUE>>, <<"iv", TRUE>>,
              <<"hmac_key", TRUE>>, <<"hmac", TRUE>>, <<"cipher", FALSE>>>>
      [] op = "rsa_verify" ->
            <<<<"data", TRUE>>, <<"signature", TRUE>>, <<"public_key", TRUE>>,
              <<"hash_algo", FALSE>>>>

\* the reads of an executor, each followed by `?`: the first error, if any
read_params(op, params) ==
    LET reads == ParamsRead(op)
        read(i) == IF reads[i][2] THEN get_param_str(params[reads[i][1]])
                   ELSE get_param_str_opt_strict(params[reads[i][1]])
        failed == { i \in 1..Len(reads) : ~read(i).ok }
    IN  IF failed = {} THEN Ok(TRUE)
        ELSE read(CHOOSE i \in failed : \A j \in failed : i <= j)

\* the executor ends with the error of a read, or calls its provider
RouteTo(parsed) ==
    LET read == read_params(orig.op, orig.params)
    IN  /\ pc = "route"
        /\ IF ~read.ok
           THEN /\ pc' = "done"
                /\ result' = Failure("ExecutionFailed", read.err)
                /\ UNCHANGED req
           ELSE /\ pc' = "start"
                /\ req' = parsed
                /\ UNCHANGED result
        /\ UNCHANGED <<invs, files, loc, phase, base, orig, cmdVars, exVars>>

\* the mac of SampleCiphertext under the hmac key the requests carry
SampleMac == HexEnc(HmacTool(hex_decode(Hx(32)).v, SampleCiphertext))

\* execute_hmac
ExecuteHmac ==
    /\ orig.op = "hmac"
    /\ RouteTo([NoReq EXCEPT !.op = "hmac", !.data = Plain(1, 5),
                             !.key = <<"s", "e", "c", "r", "e", "t">>,
                             !.algo = IF orig.params.algorithm = "string"
                                      THEN "sha512" ELSE "sha256"])

\* execute_aes_encrypt
ExecuteAesEncrypt ==
    /\ orig.op = "aes_encrypt"
    /\ \E k \in {Hx(32), Hx(16)} :
        RouteTo([NoReq EXCEPT !.op = "aes_encrypt", !.data = Plain(1, 5), !.key = k,
                              !.iv = IF orig.params.iv = "string"
                                     THEN Some(Hx(16)) ELSE NoText,
                              !.mac_key = Hx(32),
                              !.cipher = IF orig.params.cipher = "string"
                                         THEN Some("aes-128-cbc") ELSE NoName])

\* execute_aes_decrypt
ExecuteAesDecrypt ==
    /\ orig.op = "aes_decrypt"
    /\ \E k \in {Hx(32), Hx(16)} :
        RouteTo([NoReq EXCEPT !.op = "aes_decrypt", !.ct = B64(SampleCiphertext),
                              !.key = k, !.iv = Some(Hx(16)), !.mac_key = Hx(32),
                              !.mac = SampleMac,
                              !.cipher = IF orig.params.cipher = "string"
                                         THEN Some("aes-128-cbc") ELSE NoName])

\* execute_rsa_verify
ExecuteRsaVerify ==
    /\ orig.op = "rsa_verify"
    /\ RouteTo([op |-> "rsa_verify", len |-> 5, public_key |-> "pem",
                algo |-> IF orig.params.hash_algo = "string" THEN "sha512" ELSE "absent",
                signature |-> "base64"])

ParamRequests ==
    UNION { { [op |-> o, params |-> p] :
                p \in [ {ParamsRead(o)[i][1] : i \in 1..Len(ParamsRead(o))} -> JsonKinds ] } :
            o \in {"hmac", "aes_encrypt", "aes_decrypt", "rsa_verify"} }

InitParams ==
    /\ pc = "route"
    /\ orig \in ParamRequests
    /\ req = NoReq
    /\ invs = <<>>
    /\ files = [plaintext |-> NoData, ciphertext |-> NoData]
    /\ result = NoRes
    /\ loc = NoLoc
    /\ phase = "single"
    /\ base = 0
    /\ IdleCmd
    /\ IdleExec

NextParams ==
    \/ ExecuteHmac
    \/ ExecuteAesEncrypt
    \/ ExecuteAesDecrypt
    \/ ExecuteRsaVerify
    \/ HmacCall
    \/ HmacReturn
    \/ AesEncryptCall
    \/ AesEncryptIvReturn
    \/ AesEncryptCipherReturn
    \/ AesEncryptMacReturn
    \/ AesDecryptCall
    \/ AesDecryptMacReturn
    \/ AesDecryptCipherReturn
    \/ RsaVerifyCall
    \/ RsaVerifyReturn

SpecParams == InitParams /\ [][NextParams]_vars

\* the request as received omits a required parameter or gives a parameter,
\* required or optional, a value that is no string
ParamsRejected ==
    LET required ==
            CASE orig.op = "hmac" -> {"data", "key"}
              [] orig.op = "aes_encrypt" -> {"plaintext", "key", "hmac_key"}
              [] orig.op = "aes_decrypt" -> {"ciphertext", "key", "iv", "hmac_key", "hmac"}
              [] orig.op = "rsa_verify" -> {"data", "signature", "public_key"}
        optional ==
            CASE orig.op = "hmac" -> {"algorithm"}
              [] orig.op = "aes_encrypt" -> {"iv", "cipher"}
              [] orig.op = "aes_decrypt" -> {"cipher"}
              [] orig.op = "rsa_verify" -> {"hash_algo"}
    IN  \/ \E k \in required : orig.params[k] # "string"
        \/ \E k \in optional : orig.params[k] \notin {"absent", "string"}

\* the algorithm or cipher name of an invocation that carries one
NameOf(inv) == inv.argv[2].name

MAX_RANDOM_BYTES == 1024

\* mutant: only the upper limit is checked
validate_length_upper_only(length, max) ==
    IF length > max THEN Err("InvalidLength") ELSE Ok(length)

\* validators.rs: validate_length
validate_length(length, max) ==
    IF length = 0 \/ length > max THEN Err("InvalidLength") ELSE Ok(length)

\* openssl rand -base64 N / openssl rand -hex N
rand_command(format, length) ==
    Invocation("rand",
        <<A("rand"), A(format), Arg("", "", to_string(length), "caller", "validate_length", FALSE)>>,
        NoData)

\* the hex text rand -hex prints for the bytes it drew
rand_hex_text(bytes) ==
    [i \in 1..(2 * Len(bytes)) |->
        LET b == bytes[(i + 1) \div 2]
        IN  HexDigits[(IF i % 2 = 1 THEN b \div 16 ELSE b % 16) + 1]]

\* the base64 text rand -base64 prints for the bytes it drew, in one piece
rand_base64_text(bytes) ==
    [i \in 1..(4 * ((Len(bytes) + 2) \div 3)) |->
        LET g == 3 * ((i - 1) \div 4)
            at(k) == IF g + k <= Len(bytes) THEN bytes[g + k] ELSE 0
            k == (i - 1) % 4
        IN  IF k = 0 THEN Base64Alphabet[(at(1) \div 4) + 1]
            ELSE IF k = 1 THEN Base64Alphabet[((at(1) % 4) * 16 + at(2) \div 16) + 1]
            ELSE IF k = 2
            THEN IF g + 2 > Len(bytes) THEN "="
                 ELSE Base64Alphabet[((at(2) % 16) * 4 + at(3) \div 64) + 1]
            ELSE IF g + 3 > Len(bytes) THEN "=" ELSE Base64Alphabet[(at(3) % 64) + 1]]

RECURSIVE Base64Lines(_)
\* rand -base64 prints its text in lines of 64 characters
Base64Lines(text) ==
    IF Len(text) <= 64 THEN text \o <<"\n">>
    ELSE SubSeq(text, 1, 64) \o <<"\n">> \o Base64Lines(SubSeq(text, 65, Len(text)))

RandomResult(output, bytes_generated) ==
    [output |-> output, bytes_generated |-> bytes_generated]

\* the lengths a caller hands over: both limits, their neighbours, ordinary ones
RandomLengths == {0, 1, 2, 16, 1023, 1024, 1025, 10000}

RandomRequests ==
    [op : {"random_bytes", "random_hex", "random_base64"}, length : RandomLengths]

InitRand ==
    /\ pc = "start"
    /\ req \in RandomRequests
    /\ invs = <<>>
    /\ files = <<>>
    /\ result = NoRes
    /\ loc = NoLoc
    /\ phase = "off"
    /\ base = 0
    /\ orig = <<>>
    /\ IdleCmd
    /\ IdleExec

\* random_bytes up to its execute
random_bytes_call(length) ==
    LET len == validate_length(length, MAX_RANDOM_BYTES)
    IN  IF ~len.ok THEN Finish(ValidationFailure(len.err), invs, files)
        ELSE Suspend("rand_base64_exec", Append(invs, rand_command("-base64", length)),
                     files, loc)

RandomBytesCall ==
    /\ pc = "start"
    /\ req.op = "random_bytes"
    /\ random_bytes_call(req.length)

\* random_base64 is random_bytes under another name
RandomBase64Call ==
    /\ pc = "start"
    /\ req.op = "random_base64"
    /\ random_bytes_call(req.length)

RandomBytesReturn ==
    /\ pc = "rand_base64_exec"
    /\ \E st \in Statuses, bytes \in RandBytes(req.length) :
         LET out == IF st = "exit0" THEN Base64Lines(rand_base64_text(bytes)) ELSE <<>>
         IN  IF st # "exit0"
             THEN Finish(ExecFailure(st), Completed(st, out, NoData), files)
             ELSE Finish(Success(RandomResult(NoWhitespace(out), req.length)),
                         Completed(st, out, NoData), files)

RandomHexCall ==
    /\ pc = "start"
    /\ req.op = "random_hex"
    /\ LET len == validate_length(req.length, MAX_RANDOM_BYTES)
       IN  IF ~len.ok THEN Finish(ValidationFailure(len.err), invs, files)
           ELSE Suspend("rand_hex_exec", Append(invs, rand_command("-hex", req.length)),
                        files, loc)

RandomHexReturn ==
    /\ pc = "rand_hex_exec"
    /\ \E st \in Statuses, bytes \in RandBytes(req.length) :
         LET out == IF st = "exit0" THEN rand_hex_text(bytes) \o <<"\n">> ELSE <<>>
         IN  IF st # "exit0"
             THEN Finish(ExecFailure(st), Completed(st, out, NoData), files)
             ELSE Finish(Success(RandomResult(Trim(out), req.length)),
                         Completed(st, out, NoData), files)

NextRand ==
    \/ RandomBytesCall
    \/ RandomBase64Call
    \/ RandomBytesReturn
    \/ RandomHexCall
    \/ RandomHexReturn

SpecRand == InitRand /\ [][NextRand]_vars

\* C25: a length of 0 or above 1024 ends in an error with no invocation
\* issued; a length from 1 to 1024 is never refused for its length and the
\* one invocation issued is `rand` with that length.
C25_RandomLength ==
    IF req.length = 0 \/ req.length > 1024
    THEN /\ invs = <<>>
         /\ pc # "start" => (pc = "done" /\ ~result.ok)
    ELSE /\ pc # "start" =>
              /\ Len(invs) = 1
              /\ invs[1].argv[1].lit = "rand"
              /\ invs[1].argv[3].val = to_string(req.length)
         /\ pc = "done" =>
              /\ result.msg # "InvalidLength"
              /\ result.ok <=> invs[1].status = "exit0"
              /\ result.ok => result.val.bytes_generated = req.length

\* C25 witness: both limits have been tried, the upper one accepted
C25_Witness ==
    /\ pc = "done"
    /\ req.length = 1024
    /\ req.op = "random_hex"
    /\ result.ok
    /\ Len(result.val.output) = 2048

(***************************************************************************)
(* ExecutionContext life cycle within one provider call                    *)
(***************************************************************************)

\* the step wrote a temp file of the context (write_temp_file came back Ok):
\* aes_encrypt writes plaintext.bin, aes_decrypt writes ciphertext.bin, both
\* right before issuing their enc invocation
WritesTempFile == pc' \in {"enc_cipher", "dec_cipher"} /\ pc' # pc

\* C26: the context goes Created, Populated (temp files written), Executing,
\* ended, Disposed in that order: no temp file is written once an invocation
\* of the request has started.
C26_PopulatedBeforeExecuting ==
    [][WritesTempFile => Len(invs) = base]_vars

\* C28: rsa_keygen issues key generation, then the public-key derivation
\* from the private key file the first wrote; the second only after the
\* first exited 0 and private.pem was read back; it returns both keys only
\* when both exited 0, two invocations in all, with the validated bit size.
C28_RsaKeygenSequence ==
    req.op = "rsa_keygen" =>
        /\ Len(invs) <= 2
        /\ Len(invs) >= 1 =>
              /\ invs[1].tool = "genpkey"
              /\ invs[1].argv[1].lit = "genpkey"
              /\ invs[1].argv[6].lit = "-out"
        /\ Len(invs) = 2 =>
              /\ invs[2].argv[1].lit = "pkey"
              /\ invs[2].argv[2].lit = "-pubout"
              /\ invs[2].argv[3].lit = "-in"
              /\ invs[2].argv[4].name = invs[1].argv[7].name
              /\ invs[1].status = "exit0"
              /\ loc.private_key_pem # ""
        /\ (pc = "done" /\ result.ok) =>
              /\ Len(invs) = 2
              /\ invs[1].status = "exit0"
              /\ invs[2].status = "exit0"
              /\ result.val.private_key_pem # ""
              /\ result.val.public_key_pem # ""
              /\ result.val.bits \in ALLOWED_RSA_BITS
              /\ result.val.bits = loc.bits
              /\ invs[1].argv[5].val = to_string(result.val.bits[1])

\* C28 witness: a 4096-bit pair was returned after both invocations
C28_Witness ==
    /\ req.op = "rsa_keygen"
    /\ pc = "done"
    /\ result.ok
    /\ result.val.bits = <<4096, 0>>
    /\ Len(invs) = 2

(***************************************************************************)
(* providers/symmetric.rs: aes_keygen; providers/pqc.rs: pqc_sig_keygen,   *)
(* pqc_sig_sign                                                            *)
(***************************************************************************)

\* mutant: only an error of execute ends the call, the exit code is not looked at
failed_without_exit_check(st) == st \notin {"exit0", "nonzero"}

\* `.execute(ctx).await?` returned an error, or `exit_code != 0`
failed(st) == st # "exit0"

DEFAULT_PQC_SIG_ALGO == "mldsa44"

\* openssl rand -hex <n>, one command per key-material step
keygen_rand_command(step, n) ==
    Invocation(step,
        <<A("rand"), A("-hex"), Arg("", "", to_string(n), "const", "none", FALSE)>>, NoData)

\* openssl genpkey -provider oqsprovider -provider default -algorithm <algo> -out pqc_private.pem
pqc_genpkey_command(validated_algo) ==
    Invocation("pqc-genpkey",
        with_pqc_provider(<<A("genpkey")>>) \o
        <<A("-algorithm"), Arg("", validated_algo, <<>>, "caller", "validate_pqc_sig_algo", FALSE),
          A("-out"), PathArg("pqc_private.pem")>>,
        NoData)

\* openssl pkey -provider oqsprovider -provider default -pubout -in pqc_private.pem
pqc_pubout_command ==
    Invocation("pqc-pkey-pubout",
        with_pqc_provider(<<A("pkey")>>) \o
        <<A("-pubout"), A("-in"), PathArg("pqc_private.pem")>>,
        NoData)

\* openssl pkeyutl -provider oqsprovider -provider default -sign -inkey .. -rawin -in .. -out ..
pqc_sign_command ==
    Invocation("pkeyutl-sign",
        with_pqc_provider(<<A("pkeyutl")>>) \o
        <<A("-sign"), A("-inkey"), PathArg("pqc_private.pem"), A("-rawin"),
          A("-in"), PathArg("data.bin"), A("-out"), PathArg("pqc_signature.bin")>>,
        NoData)

\* the value of an AesKeygenResult
KeygenVal(key_hex, iv_hex, hmac_key_hex, key_bits) ==
    [key_hex |-> key_hex, iv_hex |-> iv_hex, hmac_key_hex |-> hmac_key_hex,
     key_bits |-> key_bits]

KeysLoc == [bits |-> <<0, 0>>, private_key_pem |-> "", key_hex |-> <<>>, iv_hex |-> <<>>]

\* Option<usize>::None
NoBits == [some |-> FALSE, v |-> 0]

\* bits.unwrap_or(256)
aes_key_bits(bits) == IF bits.some THEN bits.v ELSE 256

\* aes_keygen up to the first rand
AesKeygenCall ==
    /\ pc = "start"
    /\ req.op = "aes_keygen"
    /\ LET key_bits == aes_key_bits(req.bits)
       IN  IF key_bits \notin {128, 192, 256}
           THEN Finish(Failure("ExecutionFailed", "Invalid key size"), invs, files)
           ELSE Suspend("keygen_key", Append(invs, keygen_rand_command("rand-key", key_bits \div 8)),
                        files, loc)

\* what rand -hex n leaves after trim()
RandHexOutputs(n) == { Trim(HexEnc(bytes) \o <<"\n">>) : bytes \in RandBytes(n) }

\* aes_keygen after the key was drawn
AesKeygenKeyReturn ==
    /\ pc = "keygen_key"
    /\ \E st \in Statuses, key_hex \in RandHexOutputs(aes_key_bits(req.bits) \div 8) :
         LET done == Completed(st, IF failed(st) THEN <<>> ELSE key_hex \o <<"\n">>, NoData)
         IN  IF failed(st) THEN Finish(ExecFailure(st), done, files)
             ELSE Suspend("keygen_iv", Append(done, keygen_rand_command("rand-iv", 16)),
                          files, [loc EXCEPT !.key_hex = key_hex])

\* aes_keygen after the IV was drawn
AesKeygenIvReturn ==
    /\ pc = "keygen_iv"
    /\ \E st \in Statuses, iv_hex \in RandHexOutputs(16) :
         LET done == Completed(st, IF failed(st) THEN <<>> ELSE iv_hex \o <<"\n">>, NoData)
         IN  IF failed(st) THEN Finish(ExecFailure(st), done, files)
             ELSE Suspend("keygen_mac_key",
                          Append(done, keygen_rand_command("rand-hmac-key", 32)),
                          files, [loc EXCEPT !.iv_hex = iv_hex])

\* aes_keygen after the HMAC key was drawn
AesKeygenMacKeyReturn ==
    /\ pc = "keygen_mac_key"
    /\ \E st \in Statuses, hmac_key_hex \in RandHexOutputs(32) :
         LET done == Completed(st, IF failed(st) THEN <<>> ELSE hmac_key_hex \o <<"\n">>, NoData)
         IN  IF failed(st) THEN Finish(ExecFailure(st), done, files)
             ELSE Finish(Success(KeygenVal(loc.key_hex, loc.iv_hex, hmac_key_hex,
                                           aes_key_bits(req.bits))),
                         done, files)

\* execute_pqc_sig_keygen and pqc_sig_keygen up to genpkey
PqcSigKeygenCall ==
    /\ pc = "start"
    /\ req.op = "pqc_sig_keygen"
    /\ LET algo == IF req.algo = "absent" THEN DEFAULT_PQC_SIG_ALGO ELSE req.algo
           validated_algo == validate_pqc_sig_algo(algo)
       IN  IF ~validated_algo.ok
           THEN Finish(ValidationFailure(validated_algo.err), invs, files)
           ELSE Suspend("pqc_keygen_exec",
                        Append(invs, pqc_genpkey_command(validated_algo.v)), files, loc)

\* pqc_sig_keygen after genpkey: the exit check, the read of
\* pqc_private.pem, and the public-key derivation
PqcSigKeygenGenReturn ==
    /\ pc = "pqc_keygen_exec"
    /\ \E st \in Statuses, readable \in BOOLEAN :
        LET done == Completed(st, <<>>, NoData)
        IN  IF failed(st) THEN Finish(ExecFailure(st), done, files)
            ELSE IF ~readable THEN Finish(Failure("IoError", "io"), done, files)
            ELSE Suspend("pqc_pubkey_exec", Append(done, pqc_pubout_command), files, loc)

\* pqc_sig_keygen after pkey -pubout
PqcSigKeygenPubReturn ==
    /\ pc = "pqc_pubkey_exec"
    /\ \E st \in Statuses :
        LET done == Completed(st, <<>>, NoData)
            algo == IF req.algo = "absent" THEN DEFAULT_PQC_SIG_ALGO ELSE req.algo
        IN  IF failed(st) THEN Finish(ExecFailure(st), done, files)
            ELSE Finish(Success([AsymVal EXCEPT
                                    !.algorithm = validate_pqc_sig_algo(algo).v]),
                        done, files)

\* execute_pqc_sig_sign and pqc_sig_sign up to the sign invocation
PqcSigSignCall ==
    /\ pc = "start"
    /\ req.op = "pqc_sig_sign"
    /\ LET size == validate_size(req.len, MAX_INPUT_SIZE)
           pem == validate_pem(req.private_key)
           algo == pqc_algo(req.algo)
       IN  IF ~size.ok THEN Finish(ValidationFailure(size.err), invs, files)
           ELSE IF ~pem.ok THEN Finish(ValidationFailure(pem.err), invs, files)
           ELSE IF ~algo.ok THEN Finish(ValidationFailure(algo.err), invs, files)
           ELSE WriteThen(<<"data.bin", "pqc_private.pem">>, "pqc_sign_exec",
                          pqc_sign_command)

\* pqc_sig_sign after the sign invocation: the exit check and the read of
\* pqc_signature.bin
PqcSigSignReturn ==
    /\ pc = "pqc_sign_exec"
    /\ \E st \in Statuses, readable \in BOOLEAN :
        LET done == Completed(st, <<>>, NoData)
        IN  IF failed(st) THEN Finish(ExecFailure(st), done, files)
            ELSE IF ~readable THEN Finish(Failure("IoError", "io"), done, files)
            ELSE Finish(Success([AsymVal EXCEPT !.algorithm = pqc_algo(req.algo).v]),
                        done, files)

\* the names a caller gives: canonical ones, aliases, capitals, names of other
\* families, and none
PqcAlgoInputs ==
    {"absent", "mldsa44", "mldsa65", "falcon512", "dilithium2", "falcon-512",
     "MLDSA44", "Dilithium2", "sha256", "unknown", ""}

PqcRequests ==
    { [op |-> "pqc_sig_keygen", algo |-> a] : a \in PqcAlgoInputs } \cup
    { [op |-> "pqc_sig_sign", len |-> n, private_key |-> k, algo |-> a] :
        n \in VerifyLens, k \in {"pem", "text"}, a \in PqcAlgoInputs } \cup
    { [op |-> "pqc_sig_verify", len |-> n, public_key |-> k, algo |-> a, signature |-> s] :
        n \in {1, MAX_INPUT_SIZE + 1}, k \in {"pem", "text"}, a \in PqcAlgoInputs,
        s \in {"base64", "text"} }

AesKeygenRequests ==
    { [op |-> "aes_keygen", bits |-> b] : b \in {NoBits} \cup { Some(n) : n \in {128, 192, 256, 0, 64, 512} } }

\* a provider call of one of these operations is about to start
InitKeys(requests) ==
    /\ pc = "start"
    /\ req \in requests
    /\ invs = <<>>
    /\ files = <<>>
    /\ result = NoRes
    /\ loc = KeysLoc
    /\ phase = "single"
    /\ base = 0
    /\ orig = req
    /\ IdleCmd
    /\ IdleExec

InitPqc == InitKeys(PqcRequests)

NextPqc ==
    \/ PqcSigKeygenCall
    \/ PqcSigKeygenGenReturn
    \/ PqcSigKeygenPubReturn
    \/ PqcSigSignCall
    \/ PqcSigSignReturn
    \/ PqcSigVerifyCall
    \/ PqcSigVerifyReturn

SpecPqc == InitPqc /\ [][NextPqc]_vars

(***************************************************************************)
(* All the provider calls modelled, those of more than one invocation      *)
(* among them                                                              *)
(***************************************************************************)

InitSeq ==
    \/ Init
    \/ InitAsym
    \/ InitKeys(AesKeygenRequests \cup { r \in PqcRequests : r.op # "pqc_sig_verify" })

NextSeq ==
    \/ Next
    \/ NextAsym
    \/ AesKeygenCall
    \/ AesKeygenKeyReturn
    \/ AesKeygenIvReturn
    \/ AesKeygenMacKeyReturn
    \/ PqcSigKeygenCall
    \/ PqcSigKeygenGenReturn
    \/ PqcSigKeygenPubReturn
    \/ PqcSigSignCall
    \/ PqcSigSignReturn

SpecSeq == InitSeq /\ [][NextSeq]_vars

\* the invocations of the call in progress
Mine == SubSeq(invs, base + 1, Len(invs))

\* the operation of the call in progress
CurrentOp == req.op

\* the number of steps in the invocation sequence of an operation
StepCount(op) ==
    CASE op \in {"aes_keygen", "aes_encrypt"} -> 3
      [] op \in {"aes_decrypt", "rsa_keygen", "rsa_encrypt", "pqc_sig_keygen"} -> 2
      [] OTHER -> 1

\* C27: no invocation is retried.  Within one call every step is issued at
\* most once, and once an invocation has ended in a timeout, a nonzero exit
\* or OutputTooLarge no further invocation is issued.
C27_NoRetry ==
    /\ Len(Mine) <= StepCount(CurrentOp)
    /\ \A i, j \in 1..Len(Mine) : i # j => Mine[i].tool # Mine[j].tool
    /\ CurrentOp \in {"aes_keygen", "aes_encrypt", "aes_decrypt", "rsa_keygen",
                      "rsa_encrypt", "pqc_sig_keygen"} =>
         \A i \in 1..(Len(Mine) - 1) : Mine[i].status = "exit0"

\* C27 witness: the second of aes_keygen's three invocations ended in a
\* nonzero exit and the call returned without a third
C27_Witness ==
    /\ pc = "done"
    /\ req.op = "aes_keygen"
    /\ Len(invs) = 2
    /\ invs[1].status = "exit0"
    /\ invs[2].status = "nonzero"
    /\ ~result.ok

\* the literals of a command line, in order
Literals(inv) == [k \in 1..Len(inv.argv) |-> inv.argv[k].lit]

\* C29: every invocation of pqc_sig_keygen (the public-key derivation
\* included), pqc_sig_sign and pqc_sig_verify carries
\* -provider oqsprovider -provider default right after the subcommand, in
\* front of every operation argument.
C29_ProviderArguments ==
    \A i \in 1..Len(invs) :
        /\ Len(invs[i].argv) > 5
        /\ invs[i].argv[1].lit \in {"genpkey", "pkey", "pkeyutl"}
        /\ SubSeq(Literals(invs[i]), 2, 5) =
              <<"-provider", "oqsprovider", "-provider", "default">>
        /\ invs[i].argv[6].lit \in {"-algorithm", "-pubout", "-sign", "-verify"}

\* C29 witness: keygen has issued its public-key derivation
C29_Witness ==
    /\ req.op = "pqc_sig_keygen"
    /\ Len(invs) = 2
    /\ invs[2].argv[1].lit = "pkey"
    /\ invs[2].argv[6].lit = "-pubout"

\* the standardized names of the signature allowlist: what the alias table
\* maps to
CanonicalPqcSigNames ==
    {"mldsa44", "mldsa65", "mldsa87", "falcon512", "falcon1024", "falconpadded512",
     "falconpadded1024"}

\* the algorithm names on a command line: the argument after -algorithm
AlgorithmsPassed(inv) ==
    { inv.argv[k + 1].name : k \in { j \in 1..(Len(inv.argv) - 1) : inv.argv[j].lit = "-algorithm" } }

\* C30: in every PQC signature operation the algorithm name given to the
\* tool and the one reported in the result are canonical allowlisted names,
\* whether the caller gave an alias, a canonical name or none.
C30_CanonicalAlgorithm ==
    /\ \A i \in 1..Len(invs) : AlgorithmsPassed(invs[i]) \subseteq CanonicalPqcSigNames
    /\ (pc = "done" /\ result.ok) => result.val.algorithm \in CanonicalPqcSigNames

\* the length in bytes of the MAC key aes_keygen hands out (hmac_key_bytes)
HMAC_KEY_BYTES == 32

\* C31: aes_encrypt and aes_decrypt check the length of the MAC key as they
\* check the key and the IV: with a MAC key of another length (one byte, for
\* example) the call fails and no invocation is given that key.
C31_MacKeyLengthChecked ==
    (req.op \in {"aes_encrypt", "aes_decrypt"} /\ Len(req.mac_key) # 2 * HMAC_KEY_BYTES) =>
        /\ ~(pc = "done" /\ result.ok)
        /\ \A i \in (base + 1)..Len(invs) : invs[i].tool # "dgst-mac"

(***************************************************************************)
(* Child processes and their environment: main.rs get_openssl_version,     *)
(* openssl.rs OpenSSLCommand::execute                                      *)
(***************************************************************************)

MaxSpawns == 3

\* the variables of the parent the model looks at; the last stands for any
\* variable the code does not name
EnvNames ==
    {"PATH", "HOME", "OPENSSL_MODULES", "LD_LIBRARY_PATH", "OPENSSL_CONF", "DATABASE_URL"}

\* a variable is unset, set to text, or set to bytes that are not Unicode
ParentValues == {"unset", "parent value", "not unicode"}

PassThrough == {"OPENSSL_MODULES", "LD_LIBRARY_PATH", "OPENSSL_CONF"}

FIXED_PATH == "/usr/bin:/bin:/usr/local/bin"

SandboxDirs == {"tmp1", "tmp2"}

\* std::env::var: Ok only for a variable that is set and valid Unicode
env_var(parent, name) ==
    IF parent[name] \in {"unset", "not unicode"} THEN Err("VarError") ELSE Ok(parent[name])

\* Command::env_clear
env_clear(parent) == [n \in EnvNames |-> "unset"]

\* a Command that is given no environment passes the parent's on
env_inherit(parent) == parent

\* the environment execute builds: cleared, PATH, HOME, and the three
\* pass-through variables that env::var returns
execute_env(parent, temp_path) ==
    [n \in EnvNames |->
        IF n = "PATH" THEN FIXED_PATH
        ELSE IF n = "HOME" THEN temp_path
        ELSE IF n \in PassThrough /\ env_var(parent, n).ok THEN env_var(parent, n).v
        ELSE env_clear(parent)[n]]

Spawned(program, cwd, env) == [binary |-> program, cwd |-> cwd, env |-> env]

InitEnv ==
    /\ pc = "boot"
    /\ req \in [EnvNames -> ParentValues]
    /\ invs = <<>>
    /\ files = <<>>
    /\ result = <<>>
    /\ loc = "none"
    /\ phase = "off"
    /\ base = 0
    /\ orig = <<>>
    /\ IdleCmd
    /\ IdleExec

envRest == <<req, files, result, phase, base, orig, cmdVars, exVars>>

\* main: get_openssl_version runs `openssl version` with Command::new and
\* nothing else set; a spawn failure is logged and the server starts anyway
GetOpensslVersion ==
    /\ pc = "boot"
    /\ pc' = "serving"
    /\ \E spawned \in BOOLEAN :
         invs' = IF spawned
                 THEN Append(invs, Spawned("openssl version", "parent cwd", env_inherit(req)))
                 ELSE invs
    /\ UNCHANGED <<loc, envRest>>

\* execute_handler: ExecutionContext::new
EnvContextNew ==
    /\ pc = "serving"
    /\ loc = "none"
    /\ Len(invs) < MaxSpawns
    /\ loc' \in SandboxDirs
    /\ UNCHANGED <<pc, invs, envRest>>

\* OpenSSLCommand::execute up to spawn
ExecuteSpawn ==
    /\ pc = "serving"
    /\ loc # "none"
    /\ Len(invs) < MaxSpawns
    /\ invs' = Append(invs, Spawned("openssl", loc, execute_env(req, loc)))
    /\ UNCHANGED <<pc, loc, envRest>>

\* execute_handler returns: the context is dropped
EnvContextDrop ==
    /\ pc = "serving"
    /\ loc # "none"
    /\ loc' = "none"
    /\ UNCHANGED <<pc, invs, envRest>>

NextEnv == GetOpensslVersion \/ EnvContextNew \/ ExecuteSpawn \/ EnvContextDrop

SpecEnv == InitEnv /\ [][NextEnv]_vars

\* C32: every child process runs in a request's isolated directory with an
\* environment of PATH (the fixed value), HOME (that directory) and those of
\* OPENSSL_MODULES, LD_LIBRARY_PATH, OPENSSL_CONF that the parent has set,
\* and sees no other variable of the parent.
C32_ChildEnvironment ==
    \A i \in 1..Len(invs) :
        /\ invs[i].cwd \in SandboxDirs
        /\ invs[i].env["PATH"] = FIXED_PATH
        /\ invs[i].env["HOME"] = invs[i].cwd
        /\ \A n \in PassThrough : invs[i].env[n] \in {"unset", req[n]}
        /\ \A n \in EnvNames \ (PassThrough \cup {"PATH", "HOME"}) : invs[i].env[n] = "unset"

\* C33: an encoding input of exactly MAX_INPUT_SIZE bytes never fails with
\* OutputTooLarge: what the tool prints for it (base64 text, or hex text with
\* its line breaks) is at most MAX_OUTPUT_SIZE bytes.
C33_MaxInputWithinOutputCap ==
    TextLen(req.data) = MAX_INPUT_SIZE =>
        /\ pc = "base64_e_exec" => TextLen(openssl_base64_e(req.data)) <= MAX_OUTPUT_SIZE
        /\ pc = "xxd_p_exec" => TextLen(xxd_p(req.data)) <= MAX_OUTPUT_SIZE
        /\ ~(pc = "done" /\ result.variant = "OutputTooLarge")

\* C34: hmac takes the leading token of the tool's output as the hex
\* digest, and an exit 0 with an output of another shape (no token, or a
\* token that is no hex digest) is a failure: every success carries a digest.
C34_DigestOrFailure ==
    (req.op = "hmac" /\ pc = "done" /\ result.ok) =>
        /\ result.val.mac = FirstToken(invs[Len(invs)].stdout)
        /\ HEX_REGEX_is_match(result.val.mac)
        /\ Len(result.val.mac) = 2 * DigestLen

\* C35: every success of aes_decrypt has hmac_verified set and comes after
\* exactly one MAC invocation and one decrypt invocation of the same call, in
\* that order; a MAC output that is empty or no hex digest never leads to one.
C35_DecryptSuccess ==
    (req.op = "aes_decrypt" /\ pc = "done" /\ result.ok) =>
        /\ result.val.hmac_verified
        /\ Len(CallInvs) = 2
        /\ CallInvs[1].tool = "dgst-mac"
        /\ CallInvs[2].tool = "enc-d"
        /\ CallInvs[1].status = "exit0"
        /\ CallInvs[2].status = "exit0"
        /\ FirstToken(CallInvs[1].stdout) # <<>>
        /\ HEX_REGEX_is_match(FirstToken(CallInvs[1].stdout))

\* C35 witness: a ciphertext was decrypted after its MAC was recomputed
C35_Witness ==
    /\ req.op = "aes_decrypt"
    /\ pc = "done"
    /\ result.ok
    /\ result.val.hmac_verified
    /\ Len(CallInvs) = 2

(***************************************************************************)
(* config.rs: SUPPORTED_OPERATIONS against the dispatch match              *)
(***************************************************************************)

Op(name, category) == [name |-> name, category |-> category]

\* the catalogue that GET /operations lists
SUPPORTED_OPERATIONS ==
    << Op("base64_encode", "encoding"),
       Op("base64_decode", "encoding"),
       Op("hex_encode", "encoding"),
       Op("hex_decode", "encoding"),
       Op("random_bytes", "random"),
       Op("random_hex", "random"),
       Op("random_base64", "random"),
       Op("hash", "hashing"),
       Op("hmac", "hashing"),
       Op("aes_encrypt", "symmetric"),
       Op("aes_decrypt", "symmetric"),
       Op("aes_keygen", "symmetric"),
       Op("rsa_keygen", "asymmetric"),
       Op("rsa_pubkey", "asymmetric"),
       Op("rsa_sign", "asymmetric"),
       Op("rsa_verify", "asymmetric"),
       Op("rsa_encrypt", "asymmetric"),
       Op("rsa_decrypt", "asymmetric"),
       Op("pqc_sig_keygen", "pqc"),
       Op("pqc_sig_sign", "pqc"),
       Op("pqc_sig_verify", "pqc") >>

CatalogueNames ==
    { SUPPORTED_OPERATIONS[i].name : i \in 1..Len(SUPPORTED_OPERATIONS) }

\* names a client may post: every catalogued name, every match arm, and names
\* that are neither
PostedOperations ==
    CatalogueNames \cup DispatchOperations \cup RequestOperations
        \cup {"pqc_kem_encaps", "ec_keygen", "Base64_Encode", "hash "}

InitOps ==
    /\ IdleCmd
    /\ IdleOp
    /\ h_pc = "start"
    /\ operation \in PostedOperations
    /\ ctx = NoCtx
    /\ n_inv = 0
    /\ h_result = NoExecResult
    /\ response = NoResponse
    /\ cancel_at = "none"
    /\ IdleExecute

\* the handler up to and after the dispatch match, with a provider that
\* rejects its parameters
NextOps ==
    \/ HandlerCreateCtx
    \/ HandlerDispatch
    \/ ProviderValidationFails
    \/ HandlerBuildResponse
    \/ HandlerReturn

SpecOps == InitOps /\ [][NextOps]_vars

\* the match took one of its arms
Routed ==
    \/ h_pc \in {"provider", "result"}
    \/ /\ h_pc \in {"built", "responded"}
       /\ ctx.dir # "none"
       /\ response.code # "UnsupportedOperation"

\* the match took its default arm
Unrouted ==
    /\ h_pc \in {"built", "responded"}
    /\ response.code = "UnsupportedOperation"

\* C37: the operation names the dispatch match of execute_handler accepts
\* are exactly the names of the SUPPORTED_OPERATIONS catalogue.
C37_DispatchIsCatalogue ==
    /\ Routed => operation \in CatalogueNames
    /\ Unrouted => operation \notin CatalogueNames

C37_Witness ==
    /\ h_pc = "responded"
    /\ operation = "pqc_sig_verify"
    /\ response.code = "ValidationFailed"

====
